---- MODULE Spec2Model ----
(***************************************************************************)
(* State-machine model of al_manager's sound lifecycle and resource pool:  *)
(* ManagerItem / Sound (one handle), Manager (scene registry) and          *)
(* SoundPool (oneshot pool).                                               *)
(*                                                                         *)
(* A handle is one record holding the ManagerItem attributes, the Sound    *)
(* attributes of item.hd and the attributes of the backend source of       *)
(* item.hd.source.  Handles are never forgotten: a caller may keep a       *)
(* reference to a destroyed ManagerItem, so `handles` keeps every item     *)
(* ever created, indexed by creation order.                                *)
(*                                                                         *)
(* Volumes and pitches are in tenths (10 stands for 1.0).  Distances are   *)
(* compared squared: sqrt(d2) > D  <=>  d2 > D*D  for D >= 0.              *)
(***************************************************************************)
EXTENDS Integers, Sequences, FiniteSets, TLC

VARIABLES
    handles,            \* Seq of handle records (every ManagerItem created)
    items,              \* Manager.items: Seq of handle ids
    active_oneshots,    \* SoundPool.active_oneshots: Seq of handle ids
    max_oneshots,       \* SoundPool.max_oneshots
    last_pos,           \* Manager.last_x, last_y, last_z
    play_count,         \* Manager.play_count
    buffers,            \* sound.buffers: the cached paths
    global_effect_slots,\* Manager.global_effect_slots: Seq of [name, slot]
    global_filters,     \* Manager.global_filters: Seq of [name, filter]
    efx_made,           \* number of backend effect objects generated
    effects,            \* the effect objects generated, by slot number
    loader,             \* the threads that run Sound.load, and the buffers made
    filters_made,       \* number of backend filter objects generated
    stream,             \* a StreamingSound, its source and its worker thread
    result              \* what the last operation did and returned

vars == <<handles, items, active_oneshots, max_oneshots, last_pos, play_count,
          buffers, global_effect_slots, global_filters, efx_made, effects,
          loader, filters_made, stream, result>>

(***************************************************************************)
(* Bounds of the model                                                     *)
(***************************************************************************)
MaxHandles == 1
MaxCleanHandles == 3
MaxMuteHandles == 1
MaxPoolHandles == 15
MaxScenarioCalls == 101
MaxEfx == 1
MaxLoads == 3
MaxEfxHandles == 1
MaxEffects == 2
MaxDestroyHandles == 3
MaxSoundHandles == 2
MaxBufferHandles == 11
MaxLoopHandles == 2
MaxFilters == 3
MaxFilterHandles == 2
MaxRegistryHandles == 2
MaxSendEffects == 5
MaxSendHandles == 2
StreamBufferCount == 2
StreamChunks == 3
MaxCountHandles == 10

(***************************************************************************)
(* Program constants                                                       *)
(***************************************************************************)
DefaultMaxOneshots == 100
MinMaxOneshots == 10
EvictionDivisor == 5
DefaultMuteDistance == 20
AutoCleanupFrequency == 10
NumSends == 4
\* Volumes and pitches are counted in tenths: 10 is the source's 1.0.
DefaultVolume == 10
DefaultPitch == 10

Origin == <<0, 0, 0>>
NoPosition == <<>>

\* Inputs
ExistingFiles == {"test.ogg", "beep.ogg"}
Files == {"test.ogg", "missing.ogg"}
Volumes == {0, 5, DefaultVolume}
SourcePoints == {<<5, 0, 0>>, <<0, 3, 4>>}
ListenerPoints == {Origin, <<20, 0, 0>>, <<25, 0, 0>>}
MuteDistances == {10, DefaultMuteDistance}
Limits == {5, DefaultMaxOneshots}
EffectNames == {"cave"}
LoadFiles == {"test.ogg", "./test.ogg", "other.ogg"}
Threads == {"t1", "t2"}
GlobalNames == {"cave", "hall"}
FilterNames == {"muffled", "bright"}

Max(a, b) == IF a >= b THEN a ELSE b

(***************************************************************************)
(* Sound (item.hd) and its backend source                                  *)
(***************************************************************************)
\* Sound.is_active: source and buffer are both set.
IsActive(r) == r.source /\ r.buffer # ""

\* Sound.is_playing / Sound.paused
SoundIsPlaying(r) == IsActive(r) /\ r.state = "playing"
SoundPaused(r) == IsActive(r) /\ r.state = "paused"

\* Sound.volume getter: 0.0 when inactive, else the source gain.
SoundVolume(r) == IF IsActive(r) THEN r.gain ELSE 0

\* Sound.volume setter: only an active sound takes the value.
SetSoundVolume(r, v) == IF IsActive(r) THEN [r EXCEPT !.gain = v] ELSE r

\* Sound.pitch setter
SetSoundPitch(r, p) == IF IsActive(r) THEN [r EXCEPT !.src_pitch = p] ELSE r

\* Return value of Sound.play and Sound.play_looped: False when the sound is
\* inactive or already playing, True after source.play().
SoundPlayReturns(r) == IsActive(r) /\ ~SoundIsPlaying(r)

\* Sound.play: no-op (False) when inactive or already playing; clears looping.
SoundPlay(r) ==
    IF ~IsActive(r) \/ SoundIsPlaying(r) THEN r
    ELSE [r EXCEPT !.src_looping = FALSE, !.state = "playing"]

\* Mutant of SoundPlayLooped: sets the looping flag before the playing check.
SoundPlayLoopedSetsFlagFirst(r) ==
    IF ~IsActive(r) THEN r
    ELSE [r EXCEPT !.src_looping = TRUE, !.state = "playing"]

\* Sound.play_looped: as play, but forces looping.
SoundPlayLooped(r) ==
    IF ~IsActive(r) \/ SoundIsPlaying(r) THEN r
    ELSE [r EXCEPT !.src_looping = TRUE, !.state = "playing"]

\* Backend source.pause(): pauses a playing source, a no-op on any other state.
SourcePause(r) == IF r.state = "playing" THEN [r EXCEPT !.state = "paused"] ELSE r

\* Backend source.stop(): a playing or paused source becomes stopped; a no-op
\* on an initial or stopped source.
SourceStop(r) ==
    IF r.state \in {"playing", "paused"} THEN [r EXCEPT !.state = "stopped"] ELSE r

\* Sound.pause: returns False when inactive or already paused.
SoundPause(r) ==
    IF ~IsActive(r) \/ SoundPaused(r) THEN r ELSE SourcePause(r)

\* Sound.stop: returns False when inactive or when the source is not playing.
SoundStop(r) ==
    IF ~IsActive(r) \/ ~SoundIsPlaying(r) THEN r ELSE SourceStop(r)

\* Sound.get_effect_count: the length of applied_effects.
GetEffectCount(r) == Len(r.applied_effects)

NoSends == [i \in 0..(NumSends - 1) |-> 0]

\* Sound.remove_all_effects: clears the four auxiliary sends (the manager has
\* registered the EFX extension of its context) and the applied list.
RemoveAllEffects(r) ==
    IF ~IsActive(r) THEN r
    ELSE [r EXCEPT !.sends = NoSends, !.applied_effects = <<>>]

\* Sound.remove_all_filters
RemoveAllFilters(r) ==
    IF ~IsActive(r) THEN r
    ELSE [r EXCEPT !.src_filter = 0, !.direct_filter = 0, !.applied_filters = <<>>]

\* Sound.close: detach effects and filters, stop the source, drop the source
\* and the (shared) buffer reference.  `released` counts how often a backend
\* source was stopped and released for this handle.
SoundClose(r) ==
    LET a == RemoveAllFilters(RemoveAllEffects(r))
        b == IF a.source
             THEN [SourceStop(a) EXCEPT !.source = FALSE, !.released = @ + 1]
             ELSE a
    IN [b EXCEPT !.buffer = ""]

(***************************************************************************)
(* ManagerItem                                                             *)
(***************************************************************************)
Dist2(p, q) ==
    (p[1] - q[1]) * (p[1] - q[1]) + (p[2] - q[2]) * (p[2] - q[2])
        + (p[3] - q[3]) * (p[3] - q[3])

\* Mutant of MuteForDistance: marks the item muted but leaves the gain.
MuteKeepsGain(r) ==
    IF r.hd /\ ~r.muted
    THEN [r EXCEPT !.stored = <<SoundVolume(r)>>, !.muted = TRUE]
    ELSE r

\* ManagerItem._mute_for_distance
MuteForDistance(r) ==
    IF r.hd /\ ~r.muted
    THEN [SetSoundVolume(r, 0) EXCEPT !.stored = <<SoundVolume(r)>>, !.muted = TRUE]
    ELSE r

\* Mutant of UnmuteForDistance: restores the default volume.
UnmuteToDefault(r) ==
    IF r.hd /\ r.muted /\ r.stored # <<>>
    THEN [SetSoundVolume(r, DefaultVolume) EXCEPT !.muted = FALSE]
    ELSE r

\* ManagerItem._unmute_for_distance
UnmuteForDistance(r) ==
    IF r.hd /\ r.muted /\ r.stored # <<>>
    THEN [SetSoundVolume(r, r.stored[1]) EXCEPT !.muted = FALSE]
    ELSE r

\* Mutant of CheckDistanceMuting: applies the policy to direct items too.
CheckDistanceMutingDirectToo(r, lp) ==
    IF ~r.manager THEN r
    ELSE IF Dist2(r.pos, lp) > r.maxd * r.maxd
         THEN (IF ~r.muted THEN MuteForDistance(r) ELSE r)
         ELSE (IF r.muted THEN UnmuteForDistance(r) ELSE r)

\* Mutant of CheckDistanceMuting: mutes from the mute distance on.
CheckDistanceMutingAtLimit(r, lp) ==
    IF ~r.manager \/ r.direct THEN r
    ELSE IF Dist2(r.pos, lp) >= r.maxd * r.maxd
         THEN (IF ~r.muted THEN MuteForDistance(r) ELSE r)
         ELSE (IF r.muted THEN UnmuteForDistance(r) ELSE r)

\* ManagerItem._check_distance_muting, lp the manager's last listener position
CheckDistanceMuting(r, lp) ==
    IF ~r.manager \/ r.direct THEN r
    ELSE IF Dist2(r.pos, lp) > r.maxd * r.maxd
         THEN (IF ~r.muted THEN MuteForDistance(r) ELSE r)
         ELSE (IF r.muted THEN UnmuteForDistance(r) ELSE r)

\* Mutant of SetPositionRaises: positioning a direct source is accepted.
SetPositionNeverRaises(r) == FALSE

\* ManagerItem.set_position raises (Sound.position setter: "Direct sources
\* cannot be positioned") exactly when the item has a sound and it is direct.
SetPositionRaises(r) == r.hd /\ r.is_direct

\* ManagerItem.set_position
ItemSetPosition(r, p, lp) ==
    IF ~r.hd \/ SetPositionRaises(r) THEN r
    ELSE LET a == [r EXCEPT !.source_position = p, !.src_position = p, !.pos = p]
         IN IF a.manager THEN CheckDistanceMuting(a, lp) ELSE a

\* ManagerItem.set_max_distance
ItemSetMaxDistance(r, d, lp) ==
    CheckDistanceMuting([r EXCEPT !.maxd = Max(0, d)], lp)

\* ManagerItem.on_listener_moved
OnListenerMoved(r, lp) ==
    IF ~r.direct /\ r.hd /\ r.source THEN CheckDistanceMuting(r, lp) ELSE r

\* ManagerItem.play / pause / stop
ItemPlay(r) ==
    IF r.hd THEN (IF r.looping THEN SoundPlayLooped(r) ELSE SoundPlay(r)) ELSE r

ItemPause(r) == IF r.hd THEN SoundPause(r) ELSE r

ItemStop(r) == IF r.hd THEN SoundStop(r) ELSE r

\* Mutant of ItemDestroy: releases the backend source on every call.
ItemDestroyUnguarded(r) ==
    [SoundClose(r) EXCEPT !.hd = FALSE, !.manager = FALSE,
                          !.released = r.released + 1]

\* Mutant of ItemDestroy: drops the sound without closing it.
ItemDestroyKeepsSource(r) == [r EXCEPT !.hd = FALSE, !.manager = FALSE]

\* ManagerItem.destroy: closes and drops the sound once, drops the manager.
ItemDestroy(r) ==
    LET a == IF r.hd THEN [SoundClose(r) EXCEPT !.hd = FALSE] ELSE r
    IN [a EXCEPT !.manager = FALSE]

\* ManagerItem.is_playing / paused read self.hd and raise on a destroyed item.
PropertyRaises(r) == ~r.hd
ItemIsPlaying(r) == r.hd /\ SoundIsPlaying(r)
ItemPaused(r) == r.hd /\ SoundPaused(r)

\* ManagerItem.__init__ as called by Manager._create_manager_item: Sound(),
\* load (buffer from the cache, new source), direct, volume, pitch, and for a
\* positioned item set_position(x, y, z).
NewItem(f, direct, p, vol, pitch, looping, lp) ==
    LET base == [pos |-> p, filename |-> f, volume |-> vol, original_volume |-> vol,
                 pitch |-> pitch, looping |-> looping, direct |-> direct,
                 manager |-> TRUE, muted |-> FALSE, stored |-> <<>>,
                 maxd |-> DefaultMuteDistance, hd |-> TRUE,
                 is_direct |-> direct, source_position |-> Origin,
                 applied_effects |-> <<>>, applied_filters |-> <<>>,
                 direct_filter |-> 0,
                 source |-> TRUE, buffer |-> f, state |-> "initial",
                 gain |-> vol, src_pitch |-> pitch, src_position |-> Origin,
                 src_looping |-> FALSE, sends |-> NoSends, src_filter |-> 0,
                 released |-> 0]
    IN IF direct THEN base ELSE ItemSetPosition(base, p, lp)

(***************************************************************************)
(* Collections of handles                                                  *)
(***************************************************************************)
Range(s) == {s[i] : i \in DOMAIN s}

\* hs with op applied to the handles of S
MapHandles(hs, S, Op(_)) ==
    [h \in 1..Len(hs) |-> IF h \in S THEN Op(hs[h]) ELSE hs[h]]

\* The test `item.is_playing or item.paused` of the cleanup loops; on a
\* destroyed item the property raises (hasattr is False), which the loops
\* treat as finished.
StillActive(r) == ~PropertyRaises(r) /\ (ItemIsPlaying(r) \/ ItemPaused(r))

(***************************************************************************)
(* Effect objects (AudioEffect) and Sound.add_effect                       *)
(***************************************************************************)
\* An effect request: the type, the preset keyword ("" when not given) and the
\* explicit parameters given as keywords, a set of <<name, value>> pairs with
\* values in hundredths.  The parameters of an effect object are the pairs
\* the code has set on it.
Config(type, preset, explicit) ==
    [type |-> type, preset |-> preset, explicit |-> explicit]

EffectTypes == {"reverb", "echo"}

\* The presets dict of AudioEffect.reverb, for the two parameters modelled
PresetTable(preset) ==
    CASE preset = "room" -> {<<"gainhf", 89>>, <<"decay_time", 149>>}
      [] preset = "hall" -> {<<"gainhf", 59>>, <<"decay_time", 392>>}
      [] preset = "cave" -> {<<"gainhf", 100>>, <<"decay_time", 291>>}
      [] OTHER -> {}

\* AudioEffect.reverb(preset, **kwargs) with a preset or keywords given:
\* custom parameters if provided, otherwise the preset.
Reverb(preset, explicit) ==
    IF explicit # {} THEN explicit ELSE PresetTable(preset)

\* AudioEffect.echo(**kwargs): the defaults of the signature, overridden by
\* the keywords.
EchoDefaults == {<<"delay", 10>>, <<"feedback", 50>>}

Echo(explicit) ==
    {d \in EchoDefaults : \A e \in explicit : e[1] # d[1]} \cup explicit

\* The effect Sound.add_effect builds: for a reverb it reads the preset
\* keyword (default 'room') and calls reverb(preset) with nothing else.
AddedEffect(cfg) ==
    [type |-> cfg.type,
     params |-> IF cfg.type = "reverb"
                THEN Reverb(IF cfg.preset = "" THEN "room" ELSE cfg.preset, {})
                ELSE Echo(cfg.explicit)]

\* Sound.add_effect raises on an inactive sound, on an unknown type, and when
\* echo() gets the keyword preset, which it does not take.
AddEffectRaises(r, cfg) ==
    \/ ~IsActive(r)
    \/ cfg.type \notin EffectTypes
    \/ cfg.type = "echo" /\ cfg.preset # ""

\* Mutant of SoundAddEffect: the effect that held the send is forgotten.
SoundAddEffectReplaces(r, cfg, send, slot) ==
    IF AddEffectRaises(r, cfg) THEN r
    ELSE [r EXCEPT !.sends[send] = slot,
                   !.applied_effects =
                       Append(SelectSeq(@, LAMBDA e : e # r.sends[send]), slot)]

\* Sound.add_effect(type, send_slot, **kwargs), the new effect's slot being
\* `slot`: route the send to the slot, append the effect to applied_effects.
SoundAddEffect(r, cfg, send, slot) ==
    IF AddEffectRaises(r, cfg) THEN r
    ELSE [r EXCEPT !.sends[send] = slot, !.applied_effects = Append(@, slot)]

\* Mutant of AddEffects: the first entry whose add_effect raises ends the loop.
RECURSIVE AddEffectsUntilFailure(_, _, _, _)
AddEffectsUntilFailure(r, cfgs, i, objs) ==
    IF i > Len(cfgs) \/ AddEffectRaises(r, cfgs[i]) THEN [r |-> r, objs |-> objs]
    ELSE AddEffectsUntilFailure(SoundAddEffect(r, cfgs[i], i - 1, Len(objs) + 1),
                                cfgs, i + 1, Append(objs, AddedEffect(cfgs[i])))

\* The loop of Manager.play over an explicit effects list from entry i on:
\* entry i goes to send i - 1; an entry whose add_effect raises is skipped.
\* objs are the effect objects generated so far.
RECURSIVE AddEffects(_, _, _, _)
AddEffects(r, cfgs, i, objs) ==
    IF i > Len(cfgs) THEN [r |-> r, objs |-> objs]
    ELSE IF AddEffectRaises(r, cfgs[i]) THEN AddEffects(r, cfgs, i + 1, objs)
    ELSE AddEffects(SoundAddEffect(r, cfgs[i], i - 1, Len(objs) + 1), cfgs, i + 1,
                    Append(objs, AddedEffect(cfgs[i])))

(***************************************************************************)
(* Global effects and filters                                              *)
(***************************************************************************)
Names(reg) == {reg[i].name : i \in DOMAIN reg}

Lookup(reg, name) == reg[CHOOSE i \in DOMAIN reg : reg[i].name = name].obj

\* Mutant of DictSet: the new object is stored as one more entry.
DictAdd(reg, name, obj) == Append(reg, [name |-> name, obj |-> obj])

\* dict[name] = obj: an existing key keeps its place, a new key goes last.
DictSet(reg, name, obj) ==
    IF name \in Names(reg)
    THEN [i \in 1..Len(reg) |-> IF reg[i].name = name
                                THEN [name |-> name, obj |-> obj] ELSE reg[i]]
    ELSE Append(reg, [name |-> name, obj |-> obj])

\* Manager.apply_global_effect_to_sound for a registered effect whose slot is
\* `slot`: efx.send(source, send, slot).  The backend rejects a send index
\* outside 0..3 and routes nothing.
ApplyGlobalEffectToSound(r, slot, send) ==
    IF slot # 0 /\ r.hd /\ r.source /\ send \in 0..(NumSends - 1)
    THEN [r EXCEPT !.sends[send] = slot]
    ELSE r

\* Manager.apply_global_filter_to_sound for a registered filter
ApplyGlobalFilterToSound(r, filter) ==
    IF filter # 0 /\ r.hd /\ r.source THEN [r EXCEPT !.src_filter = filter] ELSE r

\* Mutant of AutoApplyEffects: every global effect goes to send 0.
AutoApplyToFirstSend(r, reg, i) ==
    IF reg = <<>> THEN r ELSE ApplyGlobalEffectToSound(r, reg[Len(reg)].obj, 0)

\* The auto-apply loop over enumerate(global_effect_slots.items()) from
\* index i on: effect i goes to send i - 1 (0-based).
RECURSIVE AutoApplyEffects(_, _, _)
AutoApplyEffects(r, reg, i) ==
    IF i > Len(reg) THEN r
    ELSE AutoApplyEffects(ApplyGlobalEffectToSound(r, reg[i].obj, i - 1), reg, i + 1)

\* The send indices the auto-apply loop passes to efx.send for sound r: the
\* 0-based place of every registered effect that has a slot.
GlobalSendsUsed(r, reg) ==
    {i - 1 : i \in {j \in DOMAIN reg : reg[j].obj # 0 /\ r.hd /\ r.source}}

\* The send indices the loop over an explicit effects list passes to
\* efx.send: the 0-based place of every entry whose effect could be built.
ExplicitSendsUsed(r, cfgs) ==
    {k - 1 : k \in {j \in DOMAIN cfgs : ~AddEffectRaises(r, cfgs[j])}}

\* Mutant of AutoApplyFilter: no break, every global filter is applied in
\* turn and the last one holds the direct filter slot.
AutoApplyEveryFilter(r, reg) ==
    IF reg = <<>> THEN r ELSE ApplyGlobalFilterToSound(r, reg[Len(reg)].obj)

\* The auto-apply loop over global_filters: the first one, then break.
AutoApplyFilter(r, reg) ==
    IF reg = <<>> THEN r ELSE ApplyGlobalFilterToSound(r, reg[1].obj)

AutoApplyGlobals(r, effs, filts) ==
    AutoApplyFilter(AutoApplyEffects(r, effs, 1), filts)

(***************************************************************************)
(* SoundPool                                                               *)
(***************************************************************************)
\* Mutant of CleanupFinishedSounds: a paused item counts as finished.
CleanupPausedToo(hs, pool) ==
    LET keep == SelectSeq(pool, LAMBDA h : ~PropertyRaises(hs[h]) /\ ItemIsPlaying(hs[h]))
    IN [hs |-> MapHandles(hs, Range(pool) \ Range(keep), ItemDestroy),
        pool |-> keep]

\* SoundPool.cleanup_finished_sounds: keeps the items that are playing or
\* paused, destroys every other one.
CleanupFinishedSounds(hs, pool) ==
    LET keep == SelectSeq(pool, LAMBDA h : StillActive(hs[h]))
    IN [hs |-> MapHandles(hs, Range(pool) \ Range(keep), ItemDestroy),
        pool |-> keep]

\* The number of items force_cleanup_oldest removes from n tracked ones.
CleanupCount(n) == IF n = 0 THEN 0 ELSE Max(1, n \div EvictionDivisor)

StopAndDestroy(r) == ItemDestroy(ItemStop(r))

\* Mutant of ForceCleanupOldest: pops from the end of the list (the newest).
ForceCleanupNewest(hs, pool) ==
    LET k == CleanupCount(Len(pool))
        gone == SubSeq(pool, Len(pool) - k + 1, Len(pool))
    IN [hs |-> MapHandles(hs, Range(gone), StopAndDestroy),
        pool |-> SubSeq(pool, 1, Len(pool) - k),
        evicted |-> gone]

\* SoundPool.force_cleanup_oldest: pop(0) cleanup_count times, stop and
\* destroy each popped item.
ForceCleanupOldest(hs, pool) ==
    LET k == CleanupCount(Len(pool))
        gone == SubSeq(pool, 1, k)
    IN [hs |-> MapHandles(hs, Range(gone), StopAndDestroy),
        pool |-> SubSeq(pool, k + 1, Len(pool)),
        evicted |-> gone]

\* Mutant of AtCapacity: evicts only once the pool is over its capacity.
OverCapacity(pool, max) == Len(pool) > max

\* The capacity test of play_oneshot
AtCapacity(pool, max) == Len(pool) >= max

\* Mutant of OverLimit: a pool that just fills the new limit is over it.
AtLimit(pool, max) == Len(pool) >= max

\* The over-limit test of set_max_oneshots
OverLimit(pool, max) == Len(pool) > max

NoEviction(hs, pool) == [hs |-> hs, pool |-> pool, evicted |-> <<>>]

\* The record of the last operation: its entry point, the handle it was
\* called on or returned (0 for none), what it returned or did, the volume
\* argument of a play call (the listener position of update, the keywords
\* of an effect call), the handles an eviction removed, the tracked list the
\* operation's eviction or sweep started from (the registry that
\* create_global_effect found), the effects list given to play or play_p, and
\* the send indices a play passed to efx.send.
Res(op, h, ret) ==
    [op |-> op, h |-> h, ret |-> ret, arg |-> 0, evicted |-> <<>>, before |-> <<>>,
     cfgs |-> <<>>, sends |-> {}]

\* SoundPool.play_oneshot(filename, volume, pitch, x, y, z); p = NoPosition
\* when no position is given; op names the entry point for `result`, and
\* cfgs is the effects list of the Manager.play call that came here, which the
\* pool does not receive: it goes to `result` only.
PlayOneshot(op, f, vol, pitch, p, cfgs) ==
    LET c == CleanupFinishedSounds(handles, active_oneshots)
        e == IF AtCapacity(c.pool, max_oneshots)
             THEN ForceCleanupOldest(c.hs, c.pool)
             ELSE NoEviction(c.hs, c.pool)
        id == Len(handles) + 1
        is_direct == p = NoPosition
        created == NewItem(f, is_direct, Origin, vol, pitch, FALSE, last_pos)
        placed == IF is_direct THEN created ELSE ItemSetPosition(created, p, last_pos)
        item == AutoApplyGlobals(ItemPlay(placed), global_effect_slots, global_filters)
    IN IF f \notin ExistingFiles
       THEN /\ handles' = e.hs
            /\ active_oneshots' = e.pool
            /\ result' = [op |-> op, h |-> 0, ret |-> "none", arg |-> vol,
                          evicted |-> e.evicted, before |-> c.pool,
                          cfgs |-> cfgs, sends |-> {}]
            /\ UNCHANGED buffers
       ELSE /\ handles' = Append(e.hs, item)
            /\ active_oneshots' = Append(e.pool, id)
            /\ buffers' = buffers \cup {f}
            /\ result' = [op |-> op, h |-> id, ret |-> "handle", arg |-> vol,
                          evicted |-> e.evicted, before |-> c.pool,
                          cfgs |-> cfgs,
                          sends |-> GlobalSendsUsed(item, global_effect_slots)]

\* SoundPool.set_max_oneshots
SetMaxOneshots(n) ==
    LET m == Max(MinMaxOneshots, n)
        e == IF OverLimit(active_oneshots, m)
             THEN ForceCleanupOldest(handles, active_oneshots)
             ELSE NoEviction(handles, active_oneshots)
    IN /\ max_oneshots' = m
       /\ handles' = e.hs
       /\ active_oneshots' = e.pool
       /\ result' = [op |-> "set_max_oneshots", h |-> 0, ret |-> "ok", arg |-> n,
                     evicted |-> e.evicted, before |-> active_oneshots,
                     cfgs |-> <<>>, sends |-> {}]

(***************************************************************************)
(* Manager                                                                 *)
(***************************************************************************)
\* Mutant of Clean: keeps the playing items only.
CleanKeepsPlaying(hs, its) ==
    LET keep == SelectSeq(its, LAMBDA h : ~PropertyRaises(hs[h]) /\ ItemIsPlaying(hs[h]))
    IN [hs |-> MapHandles(hs, Range(its) \ Range(keep), ItemDestroy),
        items |-> keep]

\* Manager.clean: keeps the items that are playing or paused, destroys the
\* others (an item whose property raises is destroyed too).
Clean(hs, its) ==
    LET keep == SelectSeq(its, LAMBDA h : StillActive(hs[h]))
    IN [hs |-> MapHandles(hs, Range(its) \ Range(keep), ItemDestroy),
        items |-> keep]

\* Manager._auto_cleanup: count the play; every auto_cleanup_frequency-th one
\* cleans the items and the pool and resets the counter.
AutoCleanup(hs, its, pool, pc) ==
    IF pc + 1 >= AutoCleanupFrequency
    THEN LET a == Clean(hs, its)
             b == CleanupFinishedSounds(a.hs, pool)
         IN [hs |-> b.hs, items |-> a.items, pool |-> b.pool, play_count |-> 0]
    ELSE [hs |-> hs, items |-> its, pool |-> pool, play_count |-> pc + 1]

\* Mutant of PlayLooping's choice: global effects are applied as well as
\* the explicit ones.
WithEffectsAndGlobals(r, cfgs, reg, objs) ==
    LET a == AddEffects(r, cfgs, 1, objs)
    IN [r |-> AutoApplyEffects(a.r, reg, 1), objs |-> a.objs]

\* `if effects: ... elif self.global_effect_slots: ...` of Manager.play: the
\* explicit effects if any, otherwise the global ones.
WithEffects(r, cfgs, reg, objs) ==
    IF cfgs # <<>> THEN AddEffects(r, cfgs, 1, objs)
    ELSE [r |-> AutoApplyEffects(r, reg, 1), objs |-> objs]

\* The looping branch of Manager.play (p = NoPosition, direct) and of
\* Manager.play_p (positioned), with the effects list cfgs (<<>> for None)
\* and filters=None.
PlayLooping(op, f, vol, pitch, p, cfgs) ==
    LET id == Len(handles) + 1
        direct == p = NoPosition
        mi == NewItem(f, direct, IF direct THEN Origin ELSE p, vol, pitch, TRUE, last_pos)
        e == WithEffects(ItemPlay(mi), cfgs, global_effect_slots, effects)
        item == AutoApplyFilter(e.r, global_filters)
        c == AutoCleanup(Append(handles, item), Append(items, id),
                         active_oneshots, play_count)
    IN /\ effects' = e.objs
       /\ efx_made' = Len(e.objs)
       /\ handles' = c.hs
       /\ items' = c.items
       /\ active_oneshots' = c.pool
       /\ play_count' = c.play_count
       /\ buffers' = buffers \cup {f}
       /\ result' = [Res(op, id, "handle")
                        EXCEPT !.arg = vol, !.cfgs = cfgs,
                               !.sends = IF cfgs # <<>>
                                         THEN ExplicitSendsUsed(mi, cfgs)
                                         ELSE GlobalSendsUsed(mi, global_effect_slots)]
       /\ UNCHANGED <<max_oneshots, last_pos, global_effect_slots, global_filters,
                      loader, filters_made, stream>>

\* Mutant of ManagerPlay: a looping sound is tracked by the collection and,
\* like a oneshot, by the pool.
ManagerPlayTracksTwice(op, f, p, looping, vol, pitch, cfgs) ==
    IF f \notin ExistingFiles
    THEN /\ result' = [Res(op, 0, "none") EXCEPT !.arg = vol, !.cfgs = cfgs]
         /\ UNCHANGED <<handles, items, active_oneshots, max_oneshots, last_pos,
                        play_count, buffers, global_effect_slots, global_filters,
                        efx_made, effects, loader, filters_made, stream>>
    ELSE /\ PlayOneshot(op, f, vol, pitch, p, cfgs)
         /\ items' = IF looping THEN Append(items, Len(handles) + 1) ELSE items
         /\ UNCHANGED <<max_oneshots, last_pos, play_count,
                        global_effect_slots, global_filters, efx_made, effects,
                        loader, filters_made, stream>>

\* Mutant of ManagerPlay: no test that the file exists.
ManagerPlayUnchecked(op, f, p, looping, vol, pitch, cfgs) ==
    IF ~looping
    THEN /\ PlayOneshot(op, f, vol, pitch, p, cfgs)
         /\ UNCHANGED <<items, max_oneshots, last_pos, play_count,
                        global_effect_slots, global_filters, efx_made, effects,
                        loader, filters_made, stream>>
    ELSE PlayLooping(op, f, vol, pitch, p, cfgs)

\* Manager.play and Manager.play_p (p = NoPosition for play); the
\* non-looping branch hands filename, volume, pitch and position to the pool
\* and nothing else.
ManagerPlay(op, f, p, looping, vol, pitch, cfgs) ==
    IF f \notin ExistingFiles
    THEN /\ result' = [Res(op, 0, "none") EXCEPT !.arg = vol, !.cfgs = cfgs]
         /\ UNCHANGED <<handles, items, active_oneshots, max_oneshots, last_pos,
                        play_count, buffers, global_effect_slots, global_filters,
                        efx_made, effects, loader, filters_made, stream>>
    ELSE IF ~looping
    THEN /\ PlayOneshot(op, f, vol, pitch, p, cfgs)
         /\ UNCHANGED <<items, max_oneshots, last_pos, play_count,
                        global_effect_slots, global_filters, efx_made, effects,
                        loader, filters_made, stream>>
    ELSE PlayLooping(op, f, vol, pitch, p, cfgs)

\* Manager.update: store the listener position, notify every item.
Update(p) ==
    /\ last_pos' = p
    /\ handles' = [h \in 1..Len(handles) |->
                     IF h \in Range(items) THEN OnListenerMoved(handles[h], p)
                     ELSE handles[h]]
    /\ result' = [Res("update", 0, "ok") EXCEPT !.arg = p]
    /\ UNCHANGED <<items, active_oneshots, max_oneshots, play_count, buffers,
                   global_effect_slots, global_filters, efx_made, effects,
                   loader, filters_made, stream>>

\* Manager.resume_all
ResumeAll ==
    /\ handles' = MapHandles(handles, Range(items), ItemPlay)
    /\ result' = Res("resume_all", 0, "ok")
    /\ UNCHANGED <<items, active_oneshots, max_oneshots, last_pos, play_count,
                   buffers, global_effect_slots, global_filters, efx_made, effects,
                   loader, filters_made, stream>>

\* Manager.clean
ManagerClean ==
    LET c == Clean(handles, items)
    IN /\ handles' = c.hs
       /\ items' = c.items
       /\ result' = [Res("clean", 0, "ok") EXCEPT !.before = items]
       /\ UNCHANGED <<active_oneshots, max_oneshots, last_pos, play_count, buffers,
                      global_effect_slots, global_filters, efx_made, effects,
                      loader, filters_made, stream>>

\* The filter types of Manager.create_global_filter
FilterTypes == {"lowpass", "highpass", "bandpass"}

\* Manager.create_global_filter(name, filter_type): generates a backend
\* filter and stores it under the name; an unknown type raises ValueError
\* with nothing generated or stored.
CreateGlobalFilter(name, ftype) ==
    IF ftype \notin FilterTypes
    THEN /\ result' = Res("create_global_filter", 0, "raise")
         /\ UNCHANGED <<handles, items, active_oneshots, max_oneshots, last_pos,
                        play_count, buffers, global_effect_slots, global_filters,
                        efx_made, effects, loader, filters_made, stream>>
    ELSE /\ filters_made' = filters_made + 1
         /\ global_filters' = DictSet(global_filters, name, filters_made + 1)
         /\ result' = Res("create_global_filter", filters_made + 1, "ok")
         /\ UNCHANGED <<handles, items, active_oneshots, max_oneshots, last_pos,
                        play_count, buffers, global_effect_slots, efx_made,
                        effects, loader, stream>>

\* The effect Manager.create_global_effect builds: for a reverb
\* reverb(preset=preset) when the preset keyword is given, otherwise
\* reverb(**kwargs).
GlobalEffect(cfg) ==
    [type |-> cfg.type,
     params |-> IF cfg.type = "reverb"
                THEN (IF cfg.preset # "" THEN Reverb(cfg.preset, {})
                      ELSE Reverb("", cfg.explicit))
                ELSE Echo(cfg.explicit)]

\* Manager.create_global_effect raises on an unknown type and when echo()
\* gets the keyword preset.
CreateGlobalEffectRaises(cfg) ==
    \/ cfg.type \notin EffectTypes
    \/ cfg.type = "echo" /\ cfg.preset # ""

\* Manager.create_global_effect(name, type, **kwargs): a new effect with its
\* own auxiliary slot, stored under name.
CreateGlobalEffect(name, cfg) ==
    IF CreateGlobalEffectRaises(cfg)
    THEN /\ result' = [Res("create_global_effect", 0, "raise") EXCEPT !.arg = cfg]
         /\ UNCHANGED <<handles, items, active_oneshots, max_oneshots, last_pos,
                        play_count, buffers, global_effect_slots, global_filters,
                        efx_made, effects, loader, filters_made, stream>>
    ELSE /\ efx_made' = efx_made + 1
         /\ effects' = Append(effects, GlobalEffect(cfg))
         /\ global_effect_slots' = DictSet(global_effect_slots, name, efx_made + 1)
         /\ result' = [Res("create_global_effect", efx_made + 1, "ok")
                          EXCEPT !.arg = cfg, !.before = global_effect_slots]
         /\ UNCHANGED <<handles, items, active_oneshots, max_oneshots, last_pos,
                        play_count, buffers, global_filters, loader, filters_made, stream>>

\* del dict[name]
DictDel(reg, name) == SelectSeq(reg, LAMBDA e : e.name # name)

\* The loop body of remove_global_effect: all four sends of the item's source
\* are cleared.
ClearSends(r) == IF r.hd /\ r.source THEN [r EXCEPT !.sends = NoSends] ELSE r

\* Manager.remove_global_effect(name): clears the sends of every item of
\* self.items and drops the name; nothing for an unknown name.
RemoveGlobalEffect(name) ==
    /\ IF name \in Names(global_effect_slots)
       THEN /\ handles' = MapHandles(handles, Range(items), ClearSends)
            /\ global_effect_slots' = DictDel(global_effect_slots, name)
       ELSE UNCHANGED <<handles, global_effect_slots>>
    /\ result' = [Res("remove_global_effect",
                      IF name \in Names(global_effect_slots)
                      THEN Lookup(global_effect_slots, name) ELSE 0, "ok")
                     EXCEPT !.arg = name]
    /\ UNCHANGED <<items, active_oneshots, max_oneshots, last_pos, play_count,
                   buffers, global_filters, efx_made, effects, loader, filters_made, stream>>

\* Mutant of DestroyAll: the oneshot pool is left alone.
DestroyAllItemsOnly ==
    /\ handles' = MapHandles(handles, Range(items), ItemDestroy)
    /\ items' = <<>>
    /\ result' = [Res("destroy_all", 0, IF items # <<>> THEN "true" ELSE "false")
                     EXCEPT !.before = items \o active_oneshots]
    /\ UNCHANGED <<active_oneshots, max_oneshots, last_pos, play_count, buffers,
                   global_effect_slots, global_filters, efx_made, effects,
                   loader, filters_made, stream>>

\* Manager.destroy_all: destroy every item and clear the list, then
\* SoundPool.stop_all_oneshots: stop and destroy every oneshot and clear the
\* pool.  Returns whether an item was destroyed.
DestroyAll ==
    /\ handles' = MapHandles(MapHandles(handles, Range(items), ItemDestroy),
                             Range(active_oneshots), StopAndDestroy)
    /\ items' = <<>>
    /\ active_oneshots' = <<>>
    /\ result' = [Res("destroy_all", 0, IF items # <<>> THEN "true" ELSE "false")
                     EXCEPT !.before = items \o active_oneshots]
    /\ UNCHANGED <<max_oneshots, last_pos, play_count, buffers,
                   global_effect_slots, global_filters, efx_made, effects,
                   loader, filters_made, stream>>

\* Manager.apply_global_effect_to_sound(sound_item, effect_name, send_slot)
ManagerApplyGlobalEffect(h, name, send) ==
    IF name \notin Names(global_effect_slots)
    THEN /\ result' = Res("apply_global_effect_to_sound", h, "raise")
         /\ UNCHANGED <<handles, items, active_oneshots, max_oneshots, last_pos,
                        play_count, buffers, global_effect_slots, global_filters,
                        efx_made, effects, loader, filters_made, stream>>
    ELSE /\ handles' = [handles EXCEPT ![h] =
               ApplyGlobalEffectToSound(@, Lookup(global_effect_slots, name), send)]
         /\ result' = Res("apply_global_effect_to_sound", h, "ok")
         /\ UNCHANGED <<items, active_oneshots, max_oneshots, last_pos, play_count,
                        buffers, global_effect_slots, global_filters, efx_made, effects,
                        loader, filters_made, stream>>

(***************************************************************************)
(* Calls on one handle, and the backend finishing a sound                  *)
(***************************************************************************)
\* Mutant of OneHandle: a destroy deletes the shared buffer, so that every
\* handle loaded from the same file loses it.
OneHandleDeletesBuffer(op, h, r, ret) ==
    /\ handles' = [g \in 1..Len(handles) |->
                     IF g = h THEN r
                     ELSE IF op = "item.destroy" /\ handles[g].buffer = handles[h].buffer
                          THEN [handles[g] EXCEPT !.buffer = ""]
                          ELSE handles[g]]
    /\ result' = Res(op, h, ret)
    /\ UNCHANGED <<items, active_oneshots, max_oneshots, last_pos, play_count,
                   buffers, global_effect_slots, global_filters, efx_made, effects,
                   loader, filters_made, stream>>

OneHandle(op, h, r, ret) ==
    /\ handles' = [handles EXCEPT ![h] = r]
    /\ result' = Res(op, h, ret)
    /\ UNCHANGED <<items, active_oneshots, max_oneshots, last_pos, play_count,
                   buffers, global_effect_slots, global_filters, efx_made, effects,
                   loader, filters_made, stream>>

\* item.hd.add_effect(type, send_slot=send, **kwargs) on a handle with a sound
CallAddEffect(h, cfg, send) ==
    /\ handles[h].hd
    /\ handles' = [handles EXCEPT ![h] = SoundAddEffect(@, cfg, send, efx_made + 1)]
    /\ IF AddEffectRaises(handles[h], cfg)
       THEN UNCHANGED <<efx_made, effects>>
       ELSE /\ efx_made' = efx_made + 1
            /\ effects' = Append(effects, AddedEffect(cfg))
    /\ result' = [Res("add_effect", h,
                      IF AddEffectRaises(handles[h], cfg) THEN "raise" ELSE "ok")
                     EXCEPT !.arg = cfg]
    /\ UNCHANGED <<items, active_oneshots, max_oneshots, last_pos, play_count,
                   buffers, global_effect_slots, global_filters, loader, filters_made, stream>>

CallPlay(h) == OneHandle("item.play", h, ItemPlay(handles[h]), "ok")

CallPause(h) == OneHandle("item.pause", h, ItemPause(handles[h]), "ok")

CallStop(h) == OneHandle("item.stop", h, ItemStop(handles[h]), "ok")

\* item.hd.play() and item.hd.play_looped() called on the handle's sound
CallSoundPlay(h) ==
    /\ handles[h].hd
    /\ OneHandle("hd.play", h, SoundPlay(handles[h]),
                 IF SoundPlayReturns(handles[h]) THEN "true" ELSE "false")

CallSoundPlayLooped(h) ==
    /\ handles[h].hd
    /\ OneHandle("hd.play_looped", h, SoundPlayLooped(handles[h]),
                 IF SoundPlayReturns(handles[h]) THEN "true" ELSE "false")

\* destroy never raises; `ret` tells whether this call closed the sound.
CallDestroy(h) ==
    OneHandle("item.destroy", h, ItemDestroy(handles[h]),
              IF handles[h].hd THEN "closed" ELSE "noop")

CallSetPosition(h, p) ==
    OneHandle("item.set_position", h, ItemSetPosition(handles[h], p, last_pos),
              IF SetPositionRaises(handles[h]) THEN "raise" ELSE "ok")

CallSetMaxDistance(h, d) ==
    OneHandle("item.set_max_distance", h,
              ItemSetMaxDistance(handles[h], d, last_pos), "ok")

\* The backend reaches the end of a non-looping playing source.
Finished(h) ==
    /\ handles[h].source
    /\ handles[h].state = "playing"
    /\ ~handles[h].src_looping
    /\ OneHandle("finished", h, [handles[h] EXCEPT !.state = "stopped"], "ok")

\* Manager.update_position: False for an item that is not in items.
UpdatePosition(h, p) ==
    IF h \notin Range(items)
    THEN /\ result' = Res("update_position", h, "false")
         /\ UNCHANGED <<handles, items, active_oneshots, max_oneshots, last_pos,
                        play_count, buffers, global_effect_slots, global_filters,
                        efx_made, effects, loader, filters_made, stream>>
    ELSE OneHandle("update_position", h, ItemSetPosition(handles[h], p, last_pos),
                   IF SetPositionRaises(handles[h]) THEN "raise" ELSE "true")

\* Manager.update_attribs(item, volume, pitch): False for an item that is not
\* in items; otherwise item.hd.volume and item.hd.pitch are assigned, which
\* raises AttributeError on a destroyed item (item.hd is None).
UpdateAttribs(h, vol, pitch) ==
    IF h \notin Range(items) \/ ~handles[h].hd
    THEN /\ result' = [Res("update_attribs", h,
                           IF h \notin Range(items) THEN "false" ELSE "raise")
                          EXCEPT !.arg = vol]
         /\ UNCHANGED <<handles, items, active_oneshots, max_oneshots, last_pos,
                        play_count, buffers, global_effect_slots, global_filters,
                        efx_made, effects, loader, filters_made, stream>>
    ELSE /\ handles' = [handles EXCEPT
                           ![h] = SetSoundPitch(SetSoundVolume(@, vol), pitch)]
         /\ result' = [Res("update_attribs", h, "true") EXCEPT !.arg = vol]
         /\ UNCHANGED <<items, active_oneshots, max_oneshots, last_pos,
                        play_count, buffers, global_effect_slots, global_filters,
                        efx_made, effects, loader, filters_made, stream>>

\* Manager.destroy(item): destroys the item when it is in items and returns
\* True; the list itself is not changed.
ManagerDestroy(h) ==
    IF h \notin Range(items)
    THEN /\ result' = Res("destroy", h, "false")
         /\ UNCHANGED <<handles, items, active_oneshots, max_oneshots, last_pos,
                        play_count, buffers, global_effect_slots, global_filters,
                        efx_made, effects, loader, filters_made, stream>>
    ELSE OneHandle("destroy", h, ItemDestroy(handles[h]), "true")

\* Manager.pause_all: pause() on every item; `before` keeps the playback
\* state each item had when the call began.
PauseAll ==
    /\ handles' = MapHandles(handles, Range(items), ItemPause)
    /\ result' = [Res("pause_all", 0, "ok")
                     EXCEPT !.before = [i \in DOMAIN items |-> handles[items[i]].state]]
    /\ UNCHANGED <<items, active_oneshots, max_oneshots, last_pos, play_count,
                   buffers, global_effect_slots, global_filters, efx_made, effects,
                   loader, filters_made, stream>>

\* SoundPool.cleanup_finished_sounds called on its own
PoolCleanup ==
    LET c == CleanupFinishedSounds(handles, active_oneshots)
    IN /\ handles' = c.hs
       /\ active_oneshots' = c.pool
       /\ result' = [Res("cleanup_finished_sounds", 0, "ok")
                        EXCEPT !.before = active_oneshots]
       /\ UNCHANGED <<items, max_oneshots, last_pos, play_count, buffers,
                      global_effect_slots, global_filters, efx_made, effects,
                      loader, filters_made, stream>>

(***************************************************************************)
(* Sound.load called from threads: the shared buffer cache                 *)
(***************************************************************************)
\* os.path.realpath on the files of the model
Realpath(f) == IF f = "./test.ogg" THEN "test.ogg" ELSE f

CanonicalPaths == {Realpath(f) : f \in LoadFiles}

\* No thread in load, nothing cached, no buffer generated, nothing decoded.
\* pc: where each thread is in load; file: what it loads; bound: the buffer
\* its sound holds (0 for none); cache: the buffer stored under each path (0
\* for none); decodes: how often each path was decoded; made: buffers
\* generated; started: loads begun.
LoaderInit ==
    [pc |-> [t \in Threads |-> "idle"],
     file |-> [t \in Threads |-> ""],
     bound |-> [t \in Threads |-> 0],
     cache |-> [p \in CanonicalPaths |-> 0],
     decodes |-> [p \in CanonicalPaths |-> 0],
     made |-> 0,
     started |-> 0]

LoaderFrame ==
    UNCHANGED <<handles, items, active_oneshots, max_oneshots, last_pos,
                play_count, global_effect_slots, global_filters, efx_made,
                effects, filters_made, stream>>

\* Sound.load up to the cache test: a hit binds the cached buffer, a miss
\* generates a buffer and goes on to decode the file.
LoadLookup(t, f) ==
    LET path == Realpath(f)
    IN /\ loader.pc[t] = "idle"
       /\ loader.started < MaxLoads
       /\ IF path \in buffers
          THEN loader' = [loader EXCEPT !.pc[t] = "done", !.file[t] = f,
                                        !.bound[t] = loader.cache[path],
                                        !.started = @ + 1]
          ELSE loader' = [loader EXCEPT !.pc[t] = "decoding", !.file[t] = f,
                                        !.bound[t] = loader.made + 1,
                                        !.made = @ + 1,
                                        !.started = @ + 1]
       /\ result' = Res("load.lookup", 0, t)
       /\ UNCHANGED buffers
       /\ LoaderFrame

\* Sound.load after a miss: decode the file into the new buffer and store
\* the buffer in the cache under the path.
LoadDecodeAndStore(t) ==
    LET path == Realpath(loader.file[t])
    IN /\ loader.pc[t] = "decoding"
       /\ loader' = [loader EXCEPT !.pc[t] = "done",
                                   !.decodes[path] = @ + 1,
                                   !.cache[path] = loader.bound[t]]
       /\ buffers' = buffers \cup {path}
       /\ result' = Res("load.store", 0, t)
       /\ LoaderFrame

\* The thread's load has returned; it may load into another sound.
LoadReturn(t) ==
    /\ loader.pc[t] = "done"
    /\ loader.started < MaxLoads
    /\ loader' = [loader EXCEPT !.pc[t] = "idle"]
    /\ result' = Res("load.return", 0, t)
    /\ UNCHANGED buffers
    /\ LoaderFrame

(***************************************************************************)
(* StreamingSound: the caller's thread (load_stream, play, pause, resume,  *)
(* and stop step by step) and the worker thread _stream_audio_data, one   *)
(* step per statement that reads or writes shared state.  The file has    *)
(* StreamChunks chunks of buffer_size bytes, the sound StreamBufferCount  *)
(* buffers (preload_buffers).                                              *)
(***************************************************************************)
\* StreamingSound.__init__: no source yet.  `queued` and `processed` are the
\* source's buffers_queued and buffers_processed, `position` the worker's
\* place in the data, `todo` the unqueued buffers the worker still holds,
\* w_queued and w_processed the worker's readings, wpc and spc the places of
\* the worker and of a running stop(), `last` the last call that returned.
StreamInit ==
    [loaded |-> FALSE, is_streaming |-> FALSE, is_paused |-> FALSE,
     should_loop |-> FALSE, src_state |-> "initial", queued |-> 0,
     processed |-> 0, position |-> 0, alive |-> FALSE, wpc |-> "check",
     w_queued |-> 0, w_processed |-> 0, todo |-> 0, spc |-> "idle",
     last |-> "init"]

StreamFrame ==
    UNCHANGED <<handles, items, active_oneshots, max_oneshots, last_pos,
                play_count, buffers, global_effect_slots, global_filters,
                efx_made, effects, loader, filters_made, result>>

\* Backend source.play(): a source without queued buffers ends at once; a
\* paused source goes on; any other source plays its queue from the start.
StreamSourcePlay(s) ==
    IF s.queued = 0 THEN [s EXCEPT !.src_state = "stopped"]
    ELSE IF s.src_state = "paused" THEN [s EXCEPT !.src_state = "playing"]
    ELSE [s EXCEPT !.src_state = "playing", !.processed = 0]

\* StreamingSound.load_stream: the audio file, a source and the buffers.
StreamLoad ==
    /\ ~stream.loaded
    /\ stream' = [stream EXCEPT !.loaded = TRUE, !.last = "load_stream"]
    /\ StreamFrame

\* StreamingSound.play(loop): refused without a source or while streaming;
\* otherwise sets the flags, fills and queues the buffers, plays the source
\* and starts the worker.  Filling a buffer that is still queued on the
\* source fails, and the except branch clears is_streaming.
StreamPlay(loop) ==
    /\ stream.spc = "idle"
    /\ stream' =
          IF ~stream.loaded \/ stream.is_streaming
          THEN [stream EXCEPT !.last = "play_false"]
          ELSE IF stream.queued > 0
          THEN [stream EXCEPT !.should_loop = loop, !.is_paused = FALSE,
                              !.is_streaming = FALSE, !.last = "play_false"]
          ELSE StreamSourcePlay(
                  [stream EXCEPT !.should_loop = loop, !.is_paused = FALSE,
                                 !.is_streaming = TRUE,
                                 !.queued = IF StreamChunks < StreamBufferCount
                                            THEN StreamChunks ELSE StreamBufferCount,
                                 !.processed = 0, !.alive = TRUE, !.wpc = "check",
                                 !.position = 0, !.todo = 0, !.last = "play"])
    /\ StreamFrame

\* StreamingSound.pause
StreamPause ==
    /\ stream.spc = "idle"
    /\ stream' =
          IF stream.loaded /\ stream.is_streaming
          THEN [stream EXCEPT !.src_state = IF @ = "playing" THEN "paused" ELSE @,
                              !.is_paused = TRUE, !.last = "pause"]
          ELSE [stream EXCEPT !.last = "pause"]
    /\ StreamFrame

\* StreamingSound.resume
StreamResume ==
    /\ stream.spc = "idle"
    /\ stream' =
          IF stream.loaded /\ stream.is_streaming /\ stream.is_paused
          THEN [StreamSourcePlay(stream) EXCEPT !.is_paused = FALSE, !.last = "resume"]
          ELSE [stream EXCEPT !.last = "resume"]
    /\ StreamFrame

\* StreamingSound.stop, first statements: nothing to do when not streaming,
\* otherwise clear is_streaming and is_paused.
StreamStopFlags ==
    /\ stream.spc = "idle"
    /\ stream' =
          IF ~stream.is_streaming THEN [stream EXCEPT !.last = "stop"]
          ELSE [stream EXCEPT !.is_streaming = FALSE, !.is_paused = FALSE,
                              !.spc = "halt"]
    /\ StreamFrame

\* stop: source.stop(); every queued buffer of a stopped source is processed.
StreamStopSource ==
    /\ stream.spc = "halt"
    /\ stream' =
          IF stream.src_state \in {"playing", "paused"}
          THEN [stream EXCEPT !.src_state = "stopped", !.processed = stream.queued,
                              !.spc = "unqueue"]
          ELSE [stream EXCEPT !.spc = "unqueue"]
    /\ StreamFrame

\* stop: unqueue the processed buffers when buffers_queued > 0.
StreamStopUnqueue ==
    /\ stream.spc = "unqueue"
    /\ stream' =
          IF stream.queued > 0
          THEN [stream EXCEPT !.queued = @ - stream.processed, !.processed = 0,
                              !.spc = "join"]
          ELSE [stream EXCEPT !.spc = "join"]
    /\ StreamFrame

\* stop: stream_thread.join returns once the worker has ended; stop returns.
StreamStopJoin ==
    /\ stream.spc = "join"
    /\ ~stream.alive
    /\ stream' = [stream EXCEPT !.spc = "idle", !.last = "stop"]
    /\ StreamFrame

\* Worker: `while self.is_streaming`, then the readings of buffers_queued
\* and buffers_processed; the thread ends when the flag is cleared.
WorkerCheck ==
    /\ stream.alive
    /\ stream.wpc = "check"
    /\ stream' =
          IF ~stream.is_streaming THEN [stream EXCEPT !.alive = FALSE]
          ELSE [stream EXCEPT !.w_queued = stream.queued,
                              !.w_processed = stream.processed, !.wpc = "unqueue"]
    /\ StreamFrame

\* Worker: `if processed > 0: processed_buffers = source.unqueue_buffers()`
WorkerUnqueue ==
    /\ stream.alive
    /\ stream.wpc = "unqueue"
    /\ stream' =
          IF stream.w_processed > 0 /\ stream.processed > 0
          THEN [stream EXCEPT !.todo = stream.processed,
                              !.queued = @ - stream.processed,
                              !.processed = 0, !.wpc = "refill"]
          ELSE [stream EXCEPT !.wpc = "restart"]
    /\ StreamFrame

\* Worker: one pass of `for buffer in processed_buffers`: with data left the
\* buffer is filled and queued; at the end of the data a looping stream
\* sets position back to 0, and the buffer of this pass is not queued.
WorkerRefill ==
    /\ stream.alive
    /\ stream.wpc = "refill"
    /\ LET s == IF stream.position < StreamChunks
                THEN [stream EXCEPT !.queued = @ + 1, !.position = @ + 1]
                ELSE IF stream.should_loop THEN [stream EXCEPT !.position = 0]
                ELSE stream
       IN stream' = [s EXCEPT !.todo = @ - 1,
                              !.wpc = IF stream.todo = 1 THEN "restart" ELSE "refill"]
    /\ StreamFrame

\* Worker: restart a source that is not playing, when not paused and the
\* reading of buffers_queued was positive; then wait and loop.
WorkerRestart ==
    /\ stream.alive
    /\ stream.wpc = "restart"
    /\ stream' =
          IF stream.src_state # "playing" /\ ~stream.is_paused /\ stream.w_queued > 0
          THEN [StreamSourcePlay(stream) EXCEPT !.wpc = "check"]
          ELSE [stream EXCEPT !.wpc = "check"]
    /\ StreamFrame

\* The backend plays one queued buffer to its end; after the last one the
\* source is stopped.
StreamBackendPlays ==
    /\ stream.src_state = "playing"
    /\ stream.processed < stream.queued
    /\ stream' = [stream EXCEPT !.processed = @ + 1,
                                !.src_state = IF stream.processed + 1 = stream.queued
                                              THEN "stopped" ELSE @]
    /\ StreamFrame

(***************************************************************************)
(* Spec: the registry with every operation, on a few handles               *)
(***************************************************************************)
Init ==
    /\ handles = <<>>
    /\ items = <<>>
    /\ active_oneshots = <<>>
    /\ max_oneshots = DefaultMaxOneshots
    /\ last_pos = Origin
    /\ play_count = 0
    /\ buffers = {}
    /\ global_effect_slots = <<>>
    /\ global_filters = <<>>
    /\ efx_made = 0
    /\ effects = <<>>
    /\ loader = LoaderInit
    /\ filters_made = 0
    /\ stream = StreamInit
    /\ result = Res("init", 0, "ok")

Ids == 1..Len(handles)

DoPlay ==
    \E f \in Files, looping \in BOOLEAN :
       /\ Len(handles) < MaxHandles \/ f \notin ExistingFiles
       /\ ManagerPlay("play", f, NoPosition, looping, DefaultVolume, DefaultPitch, <<>>)

DoPlayP ==
    \E f \in Files, looping \in BOOLEAN :
       /\ Len(handles) < MaxHandles \/ f \notin ExistingFiles
       /\ ManagerPlay("play_p", f, <<5, 0, 0>>, looping, DefaultVolume, DefaultPitch,
                      <<>>)

DoUpdate == \E p \in {Origin, <<20, 0, 0>>} : Update(p)

DoItemPlay == \E h \in Ids : CallPlay(h)

DoItemPause == \E h \in Ids : CallPause(h)

DoItemStop == \E h \in Ids : CallStop(h)

DoItemDestroy == \E h \in Ids : CallDestroy(h)

DoSetPosition == \E h \in Ids : CallSetPosition(h, <<5, 0, 0>>)

DoUpdatePosition == \E h \in Ids : UpdatePosition(h, <<5, 0, 0>>)

DoSetMaxDistance == \E h \in Ids : CallSetMaxDistance(h, 10)

DoFinished == \E h \in Ids : Finished(h)

DoCreateGlobalEffect ==
    /\ efx_made < MaxEfx
    /\ \E name \in EffectNames : CreateGlobalEffect(name, Config("reverb", name, {}))

DoApplyGlobalEffect ==
    \E h \in Ids, name \in EffectNames : ManagerApplyGlobalEffect(h, name, 0)

Next ==
    \/ DoPlay
    \/ DoPlayP
    \/ DoUpdate
    \/ DoItemPlay
    \/ DoItemPause
    \/ DoItemStop
    \/ DoItemDestroy
    \/ DoSetPosition
    \/ DoUpdatePosition
    \/ DoSetMaxDistance
    \/ DoFinished
    \/ ResumeAll
    \/ ManagerClean
    \/ PoolCleanup
    \/ DoCreateGlobalEffect
    \/ DoApplyGlobalEffect

Spec == Init /\ [][Next]_vars

(***************************************************************************)
(* SpecClean: looping sounds in the persistent collection and clean()      *)
(***************************************************************************)
CleanPlay ==
    /\ Len(handles) < MaxCleanHandles
    /\ \E p \in {NoPosition, <<5, 0, 0>>} :
          ManagerPlay(IF p = NoPosition THEN "play" ELSE "play_p", "test.ogg", p,
                      TRUE, DefaultVolume, DefaultPitch, <<>>)

NextClean ==
    \/ CleanPlay
    \/ DoItemPlay
    \/ DoItemPause
    \/ DoItemStop
    \/ DoItemDestroy
    \/ ManagerClean
    \/ DoCreateGlobalEffect

SpecClean == Init /\ [][NextClean]_vars

(***************************************************************************)
(* SpecPool: the oneshot pool at and over its capacity.  The oneshots play *)
(* one file at one pitch, so they end in the order they were started; the *)
(* oldest one may be paused and then outlives younger ones.                *)
(***************************************************************************)
PoolPlay ==
    /\ Len(handles) < MaxPoolHandles
    /\ \E f \in Files :
          PlayOneshot("play_oneshot", f, DefaultVolume, DefaultPitch, NoPosition,
                      <<>>)
    /\ UNCHANGED <<items, max_oneshots, last_pos, play_count, global_effect_slots,
                   global_filters, efx_made, effects, loader, filters_made, stream>>

PoolSetMax ==
    /\ \E n \in Limits : SetMaxOneshots(n)
    /\ UNCHANGED <<items, last_pos, play_count, buffers, global_effect_slots,
                   global_filters, efx_made, effects, loader, filters_made, stream>>

Playing(hs) == {h \in 1..Len(hs) : hs[h].source /\ hs[h].state = "playing"}

PoolFinished ==
    \E h \in Playing(handles) :
        /\ \A g \in Playing(handles) : h <= g
        /\ Finished(h)

\* The caller pauses the oldest tracked oneshot.
PoolPause ==
    /\ active_oneshots # <<>>
    /\ handles[Head(active_oneshots)].state = "playing"
    /\ CallPause(Head(active_oneshots))

PoolResume ==
    \E h \in Range(active_oneshots) :
        /\ handles[h].state = "paused"
        /\ CallPlay(h)

NextPool ==
    \/ PoolPlay
    \/ PoolSetMax
    \/ PoolCleanup
    \/ PoolFinished
    \/ PoolPause
    \/ PoolResume

SpecPool == Init /\ [][NextPool]_vars

(***************************************************************************)
(* SpecScenario: play_oneshot again and again while every oneshot plays on *)
(***************************************************************************)
ScenarioPlay ==
    /\ Len(handles) < MaxScenarioCalls
    /\ PlayOneshot("play_oneshot", "test.ogg", DefaultVolume, DefaultPitch, NoPosition,
                   <<>>)
    /\ UNCHANGED <<items, max_oneshots, last_pos, play_count, global_effect_slots,
                   global_filters, efx_made, effects, loader, filters_made, stream>>

NextScenario == ScenarioPlay

SpecScenario == Init /\ [][NextScenario]_vars

(***************************************************************************)
(* SpecMute: positioned sounds, the listener and the distance-mute policy  *)
(***************************************************************************)
MutePlayP ==
    /\ Len(handles) < MaxMuteHandles
    /\ \E p \in SourcePoints, looping \in BOOLEAN, vol \in Volumes :
          ManagerPlay("play_p", "test.ogg", p, looping, vol, DefaultPitch, <<>>)

MuteUpdate == \E p \in ListenerPoints : Update(p)

MuteSetPosition == \E h \in Ids, p \in SourcePoints : CallSetPosition(h, p)

MuteSetMaxDistance == \E h \in Ids, d \in MuteDistances : CallSetMaxDistance(h, d)

NextMute ==
    \/ MutePlayP
    \/ MuteUpdate
    \/ MuteSetPosition
    \/ MuteSetMaxDistance
    \/ DoItemPause
    \/ DoItemDestroy

SpecMute == Init /\ [][NextMute]_vars

(***************************************************************************)
(* SpecEffects: effects on sends and global effects                        *)
(***************************************************************************)
\* Keywords for create_global_effect: a preset, explicit parameters, or both
GlobalConfigs ==
    {Config("reverb", "cave", {}),
     Config("reverb", "", {<<"decay_time", 500>>}),
     Config("reverb", "hall", {<<"decay_time", 500>>})}

\* Keywords for add_effect
AddConfigs ==
    {Config("echo", "", {}),
     Config("reverb", "cave", {}),
     Config("reverb", "cave", {<<"decay_time", 500>>})}

\* Values of the effects argument of play and play_p
EffectLists ==
    {<<>>,
     <<Config("reverb", "hall", {})>>,
     <<Config("echo", "", {}), Config("reverb", "cave", {})>>,
     <<Config("bogus", "", {}), Config("echo", "", {})>>,
     <<Config("reverb", "hall", {}), Config("echo", "hall", {})>>}

EfxCreateGlobal ==
    /\ Len(effects) < MaxEffects
    /\ \E name \in GlobalNames, cfg \in GlobalConfigs : CreateGlobalEffect(name, cfg)

EfxPlay ==
    /\ Len(handles) < MaxEfxHandles
    /\ \E p \in {NoPosition, <<5, 0, 0>>}, looping \in BOOLEAN, cfgs \in EffectLists :
          /\ Len(effects) + Len(cfgs) <= MaxEffects
          /\ ManagerPlay(IF p = NoPosition THEN "play" ELSE "play_p", "test.ogg", p,
                         looping, DefaultVolume, DefaultPitch, cfgs)

EfxAddEffect ==
    /\ Len(effects) < MaxEffects
    /\ \E h \in Ids, cfg \in AddConfigs, send \in {0, 1} : CallAddEffect(h, cfg, send)

EfxRemoveGlobal == \E name \in GlobalNames : RemoveGlobalEffect(name)

NextEffects ==
    \/ EfxCreateGlobal
    \/ EfxPlay
    \/ EfxAddEffect
    \/ EfxRemoveGlobal

SpecEffects == Init /\ [][NextEffects]_vars

(***************************************************************************)
(* SpecDestroy: looping sounds and oneshots, and destroy_all               *)
(***************************************************************************)
DestroyPlay ==
    /\ Len(handles) < MaxDestroyHandles
    /\ \E looping \in BOOLEAN :
          ManagerPlay("play", "test.ogg", NoPosition, looping, DefaultVolume,
                      DefaultPitch, <<>>)

NextDestroy ==
    \/ DestroyPlay
    \/ DoItemPause
    \/ DoItemDestroy
    \/ DoFinished
    \/ DestroyAll

SpecDestroy == Init /\ [][NextDestroy]_vars

(***************************************************************************)
(* SpecCount: plays and the automatic cleanup counter                      *)
(***************************************************************************)
CountPlay ==
    /\ Len(handles) < MaxCountHandles
    /\ \E looping \in BOOLEAN :
          ManagerPlay("play", "test.ogg", NoPosition, looping, DefaultVolume,
                      DefaultPitch, <<>>)

CountPlayP ==
    /\ Len(handles) < MaxCountHandles
    /\ ManagerPlay("play_p", "test.ogg", <<5, 0, 0>>, TRUE, DefaultVolume,
                   DefaultPitch, <<>>)

NextCount ==
    \/ CountPlay
    \/ CountPlayP

SpecCount == Init /\ [][NextCount]_vars

(***************************************************************************)
(* SpecSound: the playback calls of a handle's sound                       *)
(***************************************************************************)
SoundSpecPlay ==
    /\ Len(handles) < MaxSoundHandles
    /\ \E looping \in BOOLEAN :
          ManagerPlay("play", "test.ogg", NoPosition, looping, DefaultVolume,
                      DefaultPitch, <<>>)

DoSoundPlay == \E h \in Ids : CallSoundPlay(h)

DoSoundPlayLooped == \E h \in Ids : CallSoundPlayLooped(h)

NextSound ==
    \/ SoundSpecPlay
    \/ DoSoundPlay
    \/ DoSoundPlayLooped
    \/ DoItemPause
    \/ DoItemStop
    \/ DoItemDestroy
    \/ DoFinished

SpecSound == Init /\ [][NextSound]_vars

(***************************************************************************)
(* SpecBuffers: handles sharing buffers of the cache, and every way a      *)
(* handle is destroyed.  The first handles are looping sounds or oneshots  *)
(* of either file, the later ones oneshots of one file that end in order.  *)
(***************************************************************************)
BufferPlay ==
    /\ Len(handles) < MaxBufferHandles
    /\ \E f \in ExistingFiles, looping \in BOOLEAN :
          /\ Len(handles) < MaxLoopHandles \/ (f = "test.ogg" /\ ~looping)
          /\ ManagerPlay("play", f, NoPosition, looping, DefaultVolume,
                         DefaultPitch, <<>>)

BufferDestroy == \E h \in Range(items) : CallDestroy(h)

NextBuffers ==
    \/ BufferPlay
    \/ BufferDestroy
    \/ PoolFinished
    \/ PoolSetMax
    \/ ManagerClean
    \/ DestroyAll

SpecBuffers == Init /\ [][NextBuffers]_vars

(***************************************************************************)
(* SpecFilters: global filters and the plays that auto-apply them          *)
(***************************************************************************)
FilterCreate ==
    /\ filters_made < MaxFilters
    /\ \E name \in FilterNames, ftype \in {"lowpass", "highpass", "notch"} :
          CreateGlobalFilter(name, ftype)

FilterPlay ==
    /\ Len(handles) < MaxFilterHandles
    /\ \E p \in {NoPosition, <<5, 0, 0>>}, looping \in BOOLEAN :
          ManagerPlay(IF p = NoPosition THEN "play" ELSE "play_p", "test.ogg", p,
                      looping, DefaultVolume, DefaultPitch, <<>>)

NextFilters ==
    \/ FilterCreate
    \/ FilterPlay

SpecFilters == Init /\ [][NextFilters]_vars

(***************************************************************************)
(* SpecAttribs: positioned sounds, the listener and update_attribs         *)
(***************************************************************************)
DoUpdateAttribs ==
    \E h \in Ids, vol \in Volumes : UpdateAttribs(h, vol, DefaultPitch)

NextAttribs ==
    \/ MutePlayP
    \/ MuteUpdate
    \/ DoUpdateAttribs
    \/ DoItemDestroy

SpecAttribs == Init /\ [][NextAttribs]_vars

(***************************************************************************)
(* SpecRegistry: the registry's calls on its persistent collection         *)
(***************************************************************************)
RegistryPlay ==
    /\ Len(handles) < MaxRegistryHandles
    /\ \E p \in {NoPosition, <<5, 0, 0>>}, looping \in BOOLEAN :
          ManagerPlay(IF p = NoPosition THEN "play" ELSE "play_p", "test.ogg", p,
                      looping, DefaultVolume, DefaultPitch, <<>>)

DoManagerDestroy == \E h \in Ids : ManagerDestroy(h)

DoRegistryAttribs == \E h \in Ids : UpdateAttribs(h, 5, DefaultPitch)

NextRegistry ==
    \/ RegistryPlay
    \/ DoManagerDestroy
    \/ DoUpdate
    \/ DoUpdatePosition
    \/ DoRegistryAttribs
    \/ PauseAll
    \/ ResumeAll
    \/ DoItemStop
    \/ DoFinished
    \/ ManagerClean
    \/ DestroyAll

SpecRegistry == Init /\ [][NextRegistry]_vars

(***************************************************************************)
(* SpecSends: more global effects than a source has auxiliary sends        *)
(***************************************************************************)
SendsCreateGlobal ==
    /\ Len(global_effect_slots) < MaxSendEffects
    /\ CreateGlobalEffect("room_" \o ToString(Len(global_effect_slots) + 1),
                          Config("reverb", "cave", {}))

SendsPlay ==
    /\ Len(handles) < MaxSendHandles
    /\ \E p \in {NoPosition, <<5, 0, 0>>}, looping \in BOOLEAN :
          ManagerPlay(IF p = NoPosition THEN "play" ELSE "play_p", "test.ogg", p,
                      looping, DefaultVolume, DefaultPitch, <<>>)

NextSends ==
    \/ SendsCreateGlobal
    \/ SendsPlay

SpecSends == Init /\ [][NextSends]_vars

(***************************************************************************)
(* SpecStream: a streaming sound, its caller and its worker thread         *)
(***************************************************************************)
DoStreamPlay == \E loop \in BOOLEAN : StreamPlay(loop)

NextStream ==
    \/ StreamLoad
    \/ DoStreamPlay
    \/ StreamPause
    \/ StreamResume
    \/ StreamStopFlags
    \/ StreamStopSource
    \/ StreamStopUnqueue
    \/ StreamStopJoin
    \/ WorkerCheck
    \/ WorkerUnqueue
    \/ WorkerRefill
    \/ WorkerRestart
    \/ StreamBackendPlays

SpecStream == Init /\ [][NextStream]_vars

(***************************************************************************)
(* SpecLoad: two threads loading files through the shared buffer cache     *)
(***************************************************************************)
ThreadLookup == \E t \in Threads, f \in LoadFiles : LoadLookup(t, f)

ThreadStore == \E t \in Threads : LoadDecodeAndStore(t)

ThreadReturn == \E t \in Threads : LoadReturn(t)

NextLoad ==
    \/ ThreadLookup
    \/ ThreadStore
    \/ ThreadReturn

SpecLoad == Init /\ [][NextLoad]_vars

(***************************************************************************)
(* Claims                                                                  *)
(***************************************************************************)
\* A destroyed handle: no sound, no source, no buffer reference, not audible.
Destroyed(r) ==
    ~r.hd /\ ~r.source /\ r.buffer = "" /\ r.state \notin {"playing", "paused"}

Live(r) == r.hd /\ r.source

\* C1: whenever a play_oneshot call has just completed, the oneshot pool
\* tracks at most max_oneshots handles (SpecPool).  Violated: set_max_oneshots
\* lowers the limit under a larger pool and evicts a fifth only.
C1_PoolWithinCapacity ==
    result.op = "play_oneshot" => Len(active_oneshots) <= max_oneshots

\* C2: when play_oneshot finds the pool at capacity after its cleanup pass,
\* with n handles tracked, the eviction removes exactly max(1, n div 5) of
\* them, the first ones in insertion order; each evicted handle is destroyed
\* and the remaining ones keep their order, followed by the new handle
\* (SpecPool).
C2_EvictsOldestFifth ==
    (result.op = "play_oneshot" /\ Len(result.before) >= max_oneshots) =>
        LET n == Len(result.before)
            k == IF n \div 5 >= 1 THEN n \div 5 ELSE 1
            rest == [i \in 1..(n - k) |-> result.before[i + k]]
        IN /\ Len(result.evicted) = k
           /\ \A i \in 1..k : result.evicted[i] = result.before[i]
           /\ \A i \in 1..k : Destroyed(handles[result.evicted[i]])
           /\ active_oneshots =
                 IF result.ret = "handle" THEN Append(rest, result.h) ELSE rest

\* C2 witness: a play_oneshot that found ten handles tracked under a limit of
\* ten, evicted two of them and returned the new handle.
C2_Witness ==
    /\ result.op = "play_oneshot"
    /\ result.ret = "handle"
    /\ Len(result.before) = 10
    /\ Len(result.evicted) = 2
    /\ Len(active_oneshots) = 9
    /\ max_oneshots = 10

\* C3: from an empty pool with max_oneshots = 100 and every oneshot playing on,
\* each of the consecutive play_oneshot calls returns a handle, the pool holds
\* at most 100 handles after every call, and an eviction pass runs in the
\* 101st call and in no other (SpecScenario).
C3_OneEvictionIn101Calls ==
    result.op = "play_oneshot" =>
        /\ result.ret = "handle"
        /\ result.h = Len(handles)
        /\ Len(active_oneshots) <= 100
        /\ (result.evicted # <<>>) <=> (Len(handles) = 101)

\* C3 witness: the 101st call has evicted 20 handles and 81 are tracked.
C3_Witness ==
    /\ Len(handles) = 101
    /\ result.op = "play_oneshot"
    /\ Len(result.evicted) = 20
    /\ Len(active_oneshots) = 81

\* The place of handle h in the list s
IndexOf(s, h) == CHOOSE i \in DOMAIN s : s[i] = h

\* C4: Manager.clean() removes from the persistent collection exactly the
\* handles that are neither playing nor paused and destroys them; every
\* playing or paused handle stays, in its original relative order, and its
\* whole record (playback state, volume, position, sends, filter) is as
\* before (SpecClean).
C4_CleanKeepsActive ==
    [][result'.op = "clean" =>
         LET kept == {h \in Range(items) :
                        Live(handles[h]) /\ handles[h].state \in {"playing", "paused"}}
         IN /\ Range(items') = kept
            /\ Len(items') = Cardinality(kept)
            /\ \A i, j \in DOMAIN items' :
                  i < j => IndexOf(items, items'[i]) < IndexOf(items, items'[j])
            /\ \A h \in kept : handles'[h] = handles[h]
            /\ \A h \in Range(items) \ kept : Destroyed(handles'[h])
            /\ \A h \in Ids \ Range(items) : handles'[h] = handles[h]
      ]_vars

\* C4 witness: clean() has dropped the second of three tracked handles and
\* kept a paused one and a playing positioned one that has a send occupied.
C4_Witness ==
    /\ result.op = "clean"
    /\ result.before = <<1, 2, 3>>
    /\ items = <<1, 3>>
    /\ Destroyed(handles[2])
    /\ handles[1].state = "paused"
    /\ handles[3].state = "playing"
    /\ handles[3].sends[0] # 0
    /\ handles[3].pos = <<5, 0, 0>>

\* C5: stop() on a handle that is playing or paused leaves it stopped; pause()
\* on a playing handle leaves it paused; play() on a paused or stopped handle
\* leaves it playing (Spec).  Violated: Sound.stop returns early on a paused
\* source.
C5_Transitions ==
    [][\A h \in Ids :
         LET r == handles[h]
             s == handles'[h]
         IN (Live(r) /\ result'.h = h) =>
              /\ (result'.op = "item.stop" /\ r.state \in {"playing", "paused"})
                     => s.state = "stopped"
              /\ (result'.op = "item.pause" /\ r.state = "playing")
                     => s.state = "paused"
              /\ (result'.op = "item.play" /\ r.state \in {"paused", "stopped"})
                     => s.state = "playing"
      ]_vars

\* C6: destroy() on an already destroyed handle changes nothing of the handle,
\* the persistent collection, the oneshot pool or the buffer cache, every
\* destroy() leaves the handle destroyed, and the backend source of a handle
\* is released at most once (Spec).
C6_DestroyIdempotent ==
    [][result'.op = "item.destroy" =>
         /\ Destroyed(handles'[result'.h])
         /\ result'.ret \in {"closed", "noop"}
         /\ handles'[result'.h].released = 1
         /\ ~handles[result'.h].hd =>
               /\ result'.ret = "noop"
               /\ handles' = handles
               /\ items' = items
               /\ active_oneshots' = active_oneshots
               /\ buffers' = buffers
      ]_vars

\* C6 witness: a second destroy() on a handle whose source was released once.
C6_Witness ==
    /\ result.op = "item.destroy"
    /\ result.ret = "noop"
    /\ handles[result.h].released = 1
    /\ Destroyed(handles[result.h])

\* C7: a destroyed handle stays destroyed under every operation: it never
\* gets a sound or a backend source again and is never playing or paused
\* again (Spec).
C7_DestroyedIsTerminal ==
    [][\A h \in Ids : ~handles[h].hd => Destroyed(handles'[h])]_vars

\* C7 witness: resume_all() has run over a persistent collection that holds a
\* destroyed handle.
C7_Witness ==
    /\ result.op = "resume_all"
    /\ \E h \in Range(items) : Destroyed(handles[h])

\* What C8 says of the position and mute state of direct handles
DirectAtOrigin ==
    \A h \in Ids :
        handles[h].direct =>
            /\ handles[h].is_direct
            /\ handles[h].pos = Origin
            /\ handles[h].source_position = Origin
            /\ handles[h].src_position = Origin
            /\ ~handles[h].muted

SetPositionOps == {"item.set_position", "update_position"}

\* C8 as stated: set_position on a direct handle always fails with an error
\* (Spec).  Violated: on a destroyed handle it returns without an error.
C8_DirectAlwaysRaises ==
    /\ DirectAtOrigin
    /\ (/\ result.op \in SetPositionOps
        /\ result.ret # "false"
        /\ handles[result.h].direct) => result.ret = "raise"

\* C8 amended: a direct handle's position is (0,0,0) in every state and it is
\* never muted; set_position on a direct handle fails with an error exactly
\* when the handle is not destroyed, and returns silently when it is (Spec).
C8_DirectRaisesWhileLive ==
    /\ DirectAtOrigin
    /\ (/\ result.op \in SetPositionOps
        /\ result.ret # "false"
        /\ handles[result.h].direct) =>
            (result.ret = "raise" <=> handles[result.h].hd)

\* C8 witness: set_position on a live direct handle has raised.
C8_Witness ==
    /\ result.op = "item.set_position"
    /\ result.ret = "raise"
    /\ handles[result.h].direct
    /\ handles[result.h].hd
    /\ handles[result.h].pos = Origin

\* The effect C9 gives a listener move to p on the handles of S: beyond the
\* mute distance the gain is 0 and the handle muted, within it the gain is
\* the in-range volume V and the handle not muted.
MovePolicy(S, p) ==
    \A h \in S :
        LET r == handles[h]
            V == IF r.muted THEN r.stored[1] ELSE r.gain
        IN (Live(r) /\ ~r.direct) =>
              IF Dist2(r.pos, p) > r.maxd * r.maxd
              THEN /\ handles'[h].gain = 0
                   /\ handles'[h].muted
                   /\ handles'[h].stored = <<V>>
              ELSE /\ handles'[h].gain = V
                   /\ ~handles'[h].muted

ScenarioHandles ==
    {h \in Range(items) :
        /\ Live(handles[h])
        /\ handles[h].looping
        /\ handles[h].pos = <<5, 0, 0>>
        /\ handles[h].maxd < 15}

\* C10 as stated: after update(20,0,0) the handle's volume is 0 (SpecMute).
\* Violated: the mute writes the backend volume, the handle's own volume
\* attribute keeps the value passed to play_p.
C10_HandleVolumeZero ==
    (result.op = "update" /\ last_pos = <<20, 0, 0>>) =>
        \A h \in ScenarioHandles : handles[h].volume = 0

\* C10 amended: after play_p at (5,0,0) with looping and a mute distance
\* below 15, update(20,0,0) leaves the handle muted with backend volume 0,
\* while its volume and original_volume are the volume passed to play_p,
\* which no operation changes (SpecMute).
C10_BackendVolumeZero ==
    [][/\ (result'.op = "play_p" /\ result'.ret = "handle") =>
             /\ handles'[result'.h].volume = result'.arg
             /\ handles'[result'.h].original_volume = result'.arg
       /\ \A h \in Ids :
             /\ handles'[h].volume = handles[h].volume
             /\ handles'[h].original_volume = handles[h].original_volume
       /\ (result'.op = "update" /\ last_pos' = <<20, 0, 0>>) =>
             \A h \in ScenarioHandles :
                 /\ handles'[h].gain = 0
                 /\ handles'[h].muted
      ]_vars

\* C10 witness: update(20,0,0) has muted a looping handle at (5,0,0) that was
\* played with volume 5.
C10_Witness ==
    /\ result.op = "update"
    /\ last_pos = <<20, 0, 0>>
    /\ \E h \in ScenarioHandles :
          /\ handles[h].gain = 0
          /\ handles[h].muted
          /\ handles[h].volume = 5
          /\ handles[h].original_volume = 5

\* Handle h is muted exactly when it is farther from the listener than its
\* mute distance.
MutedIffFar(h) ==
    handles[h].muted <=>
        Dist2(handles[h].pos, last_pos) > handles[h].maxd * handles[h].maxd

\* The live positioned handles of the persistent collection
LivePositioned == {h \in Range(items) : Live(handles[h]) /\ ~handles[h].direct}

\* C11: after update(x,y,z) the stored listener position is (x,y,z) and every
\* live positioned handle of the persistent collection is muted iff its
\* distance to it is strictly greater than its mute distance; the same holds
\* for such a handle after set_position and set_max_distance on it (SpecMute).
C11_MutedIffBeyond ==
    /\ result.op = "update" =>
          /\ last_pos = result.arg
          /\ \A h \in LivePositioned : MutedIffFar(h)
    /\ (/\ result.op \in {"item.set_position", "item.set_max_distance"}
        /\ result.h \in LivePositioned) => MutedIffFar(result.h)

\* C11 witness: after update(25,0,0) a handle at (5,0,0) with the mute
\* distance 20 is exactly at the limit and, having been muted before, is not
\* muted.
C11_Witness ==
    /\ result.op = "update"
    /\ last_pos = <<25, 0, 0>>
    /\ \E h \in LivePositioned :
          /\ handles[h].pos = <<5, 0, 0>>
          /\ handles[h].maxd = 20
          /\ handles[h].stored # <<>>
          /\ ~handles[h].muted

\* C12: two loads of one path, one after the other or from two threads at
\* once, bind the same buffer and decode the file once; the cache holds one
\* buffer per canonical path (SpecLoad).  Violated: two threads that both
\* miss the cache each decode the file into a buffer of their own.
C12_OneBufferOneDecode ==
    /\ \A t, u \in Threads :
          (/\ loader.pc[t] = "done"
           /\ loader.pc[u] = "done"
           /\ Realpath(loader.file[t]) = Realpath(loader.file[u]))
              => loader.bound[t] = loader.bound[u]
    /\ \A p \in CanonicalPaths : loader.decodes[p] <= 1
    /\ \A p \in CanonicalPaths : (p \in buffers) <=> (loader.cache[p] # 0)

PlayOps == {"play", "play_p"}

Sends == 0..(NumSends - 1)

\* C13: after add_effect twice with different types on one send of a handle,
\* only the second effect is on that send and the handle holds no record of
\* the first (SpecEffects).  Violated: applied_effects keeps the first effect.
C13_SecondReplacesFirst ==
    [][(result'.op = "add_effect" /\ result'.ret = "ok") =>
         \A send \in Sends :
            LET old == handles[result'.h].sends[send]
                new == handles'[result'.h].sends[send]
            IN (/\ old # 0
                /\ old \in Range(handles[result'.h].applied_effects)
                /\ new = Len(effects')
                /\ new # old
                /\ effects'[new].type # effects'[old].type) =>
                   /\ new \in Range(handles'[result'.h].applied_effects)
                   /\ old \notin Range(handles'[result'.h].applied_effects)
      ]_vars

\* C14: a looping play or play_p without explicit effects returns a handle
\* whose send i (from 0) is routed to the slot of the (i+1)-th registered
\* global effect, for each of the k registered effects, and whose other sends
\* are free; with one registered effect exactly one send is occupied
\* (SpecEffects).
C14_AutoApplyInOrder ==
    [][(/\ result'.op \in PlayOps
        /\ result'.ret = "handle"
        /\ result'.cfgs = <<>>
        /\ result'.h \in Range(items')) =>
           \A send \in Sends :
              handles'[result'.h].sends[send] =
                 IF send < Len(global_effect_slots)
                 THEN global_effect_slots[send + 1].obj
                 ELSE 0
      ]_vars

\* C14 witness: play(looping) with two global effects registered has routed
\* send 0 to the first and send 1 to the second.
C14_Witness ==
    /\ result.op = "play"
    /\ result.ret = "handle"
    /\ result.cfgs = <<>>
    /\ result.h \in Range(items)
    /\ Len(global_effect_slots) = 2
    /\ handles[result.h].sends[0] = global_effect_slots[1].obj
    /\ handles[result.h].sends[1] = global_effect_slots[2].obj
    /\ global_effect_slots[1].obj # global_effect_slots[2].obj
    /\ handles[result.h].sends[2] = 0

\* C15: play and play_p with a non-empty explicit effects list, looping or
\* not, return a handle with entry k of the list on send k and no global
\* effect on any send (SpecEffects).  Violated: the non-looping branch drops
\* the list and the pool applies the global effects.
C15_ExplicitEffectsApplied ==
    (/\ result.op \in PlayOps
     /\ result.ret = "handle"
     /\ result.cfgs # <<>>) =>
        /\ \A k \in DOMAIN result.cfgs :
              LET slot == handles[result.h].sends[k - 1]
              IN /\ slot # 0
                 /\ effects[slot].type = result.cfgs[k].type
                 /\ slot \in Range(handles[result.h].applied_effects)
        /\ \A send \in Sends :
              \A i \in DOMAIN global_effect_slots :
                 handles[result.h].sends[send] # global_effect_slots[i].obj

\* C16: play and play_p return a handle only for a file that exists, and the
\* call that returns null leaves the persistent collection, the oneshot pool,
\* the play counter, the buffer cache and every handle as they were (Spec).
C16_MissingFileNoEffect ==
    [][result'.op \in PlayOps =>
         /\ result'.ret \in {"none", "handle"}
         /\ result'.ret = "handle" =>
               handles'[result'.h].filename \in ExistingFiles
         /\ result'.ret = "none" =>
               /\ handles' = handles
               /\ items' = items
               /\ active_oneshots' = active_oneshots
               /\ play_count' = play_count
               /\ buffers' = buffers
      ]_vars

\* C16 witness: play_p on a missing file has returned null with a sound
\* tracked and its file cached.
C16_Witness ==
    /\ result.op = "play_p"
    /\ result.ret = "none"
    /\ buffers = {"test.ogg"}
    /\ Len(items) + Len(active_oneshots) = 1

\* C17: after remove_global_effect(name) the name is not registered and no
\* live handle of the persistent collection or of the oneshot pool has a send
\* routed to the removed effect's slot (SpecEffects).  Violated: the sends of
\* the pool's handles are not cleared.
C17_RemovedEffectDetached ==
    (result.op = "remove_global_effect" /\ result.h # 0) =>
        /\ result.arg \notin Names(global_effect_slots)
        /\ \A h \in Range(items) \cup Range(active_oneshots) :
              Live(handles[h]) =>
                 \A send \in Sends : handles[h].sends[send] # result.h

\* C18: destroy_all() leaves the persistent collection and the oneshot pool
\* empty and every handle that was in either destroyed; a destroy_all() right
\* after a destroy_all() changes nothing; it returns without raising
\* (SpecDestroy).
C18_DestroyAllIdempotent ==
    [][result'.op = "destroy_all" =>
         /\ items' = <<>>
         /\ active_oneshots' = <<>>
         /\ result'.ret \in {"true", "false"}
         /\ \A h \in Range(items) \cup Range(active_oneshots) :
               Destroyed(handles'[h])
         /\ result.op = "destroy_all" =>
               /\ handles' = handles
               /\ items' = items
               /\ active_oneshots' = active_oneshots
               /\ buffers' = buffers
               /\ play_count' = play_count
      ]_vars

\* C18 witness: a destroy_all() that found nothing tracked, after an earlier
\* one had destroyed a looping sound and a oneshot.
C18_Witness ==
    /\ result.op = "destroy_all"
    /\ result.before = <<>>
    /\ items = <<>>
    /\ active_oneshots = <<>>
    /\ \E h, g \in Ids :
          /\ handles[h].looping /\ ~handles[g].looping
          /\ handles[h].released = 1 /\ handles[g].released = 1
    /\ \A h \in Ids : Destroyed(handles[h])

\* C19: every play or play_p that returns a handle, looping or not, advances
\* the play counter by one, the auto_cleanup_frequency-th one resets it to
\* zero, and the counter stays in 0..auto_cleanup_frequency-1 (SpecCount).
\* Violated: a non-looping play does not count.
C19_EveryPlayCounts ==
    [][(result'.op \in PlayOps /\ result'.ret = "handle") =>
         /\ play_count' = (play_count + 1) % AutoCleanupFrequency
         /\ play_count' \in 0..(AutoCleanupFrequency - 1)
      ]_vars

\* C20: a reverb built by add_effect or create_global_effect with both a
\* preset and explicit parameters carries the explicit parameters
\* (SpecEffects).  Violated: both build the preset and drop the parameters.
C20_ExplicitBeatsPreset ==
    (/\ result.op \in {"add_effect", "create_global_effect"}
     /\ result.ret = "ok"
     /\ result.arg.type = "reverb"
     /\ result.arg.preset # ""
     /\ result.arg.explicit # {}) =>
        effects[Len(effects)].params = result.arg.explicit

\* C21: play() and play_looped() called on a handle that is already playing
\* return False and leave the handle as it was: playback state, looping flag
\* and source unchanged.
C21_PlayOnPlayingIsNoop ==
    [][(result'.op \in {"hd.play", "hd.play_looped"}
        /\ SoundIsPlaying(handles[result'.h]))
       => /\ result'.ret = "false"
          /\ handles' = handles]_vars

\* play_looped() has been refused on a playing, non-looping source, and play()
\* on a playing, looping one.
C21_Witness ==
    /\ result.op \in {"hd.play", "hd.play_looped"}
    /\ result.ret = "false"
    /\ SoundIsPlaying(handles[result.h])
    /\ handles[result.h].src_looping = (result.op = "hd.play")

\* The calls C22 names: listener updates, set_max_distance and plays.
PolicyOps == {"update", "item.set_max_distance", "item.play", "play", "play_p"}

\* C22: a direct handle is never distance-muted: after every step its muted
\* flag is false and it holds no stored volume, and update, set_max_distance
\* and play calls leave its backend volume as it was.
C22_DirectNeverMuted ==
    [][\A h \in 1..Len(handles') :
          handles'[h].direct =>
             /\ ~handles'[h].muted
             /\ handles'[h].stored = <<>>
             /\ (h \in Ids /\ result'.op \in PolicyOps)
                   => handles'[h].gain = handles[h].gain]_vars

\* set_max_distance has put a live direct handle's mute distance below its
\* distance to the listener, and the handle keeps its volume.
C22_Witness ==
    /\ result.op = "item.set_max_distance"
    /\ handles[result.h].direct
    /\ handles[result.h].hd
    /\ handles[result.h].manager
    /\ Dist2(handles[result.h].pos, last_pos)
          > handles[result.h].maxd * handles[result.h].maxd
    /\ ~handles[result.h].muted
    /\ handles[result.h].gain = DefaultVolume

\* The calls that destroy handles: destroy, the sweeps, set_max_oneshots and
\* play (whose oneshot branch sweeps and evicts), and destroy_all.
DestroyOps ==
    {"item.destroy", "destroy_all", "clean", "cleanup_finished_sounds",
     "set_max_oneshots", "play"}

\* The handles a step sets out to destroy: the handle destroy is called on,
\* every tracked handle for destroy_all, and for the other calls the evicted
\* handles and the tracked handles that are neither playing nor paused.
DestroyTargets ==
    IF result'.op = "item.destroy" THEN {result'.h}
    ELSE IF result'.op = "destroy_all"
         THEN Range(items) \cup Range(active_oneshots)
         ELSE Range(result'.evicted)
              \cup {g \in Range(items) \cup Range(active_oneshots) :
                      ~StillActive(handles[g])}

\* C23: no step removes an entry of the buffer cache, every active handle's
\* buffer is an entry of the cache, and when handles are destroyed (destroy,
\* cleanup sweep, eviction, destroy_all) every other handle is left as it was,
\* active and in the same playback state.
C23_BuffersOutliveHandles ==
    [][/\ buffers \subseteq buffers'
       /\ \A g \in 1..Len(handles') :
             IsActive(handles'[g]) => handles'[g].buffer \in buffers'
       /\ result'.op \in DestroyOps
            => \A g \in Ids \ DestroyTargets : handles'[g] = handles[g]]_vars

\* A handle has been destroyed while another handle loaded from the same
\* file is active and playing, and the cache holds both files.
C23_Witness ==
    /\ buffers = ExistingFiles
    /\ result.op \in DestroyOps
    /\ \E h, g \in Ids :
          /\ h # g
          /\ Destroyed(handles[h])
          /\ handles[h].filename = handles[g].filename
          /\ SoundIsPlaying(handles[g])

\* An effect configuration add_effect accepts: a known type, and no preset
\* keyword for an echo.
ValidConfig(cfg) ==
    /\ cfg.type \in EffectTypes
    /\ cfg.type = "echo" => cfg.preset = ""

\* C24: a looping play or play_p with an explicit effects list returns the
\* handle whether or not an entry fails, and every entry k with a valid
\* configuration is attached to send k (counted from 0).
C24_FailedEntrySkipped ==
    (/\ result.op \in PlayOps
     /\ result.cfgs # <<>>
     /\ result.h # 0
     /\ handles[result.h].looping) =>
        /\ result.ret = "handle"
        /\ result.h \in Range(items)
        /\ \A k \in DOMAIN result.cfgs :
              ValidConfig(result.cfgs[k]) =>
                 LET slot == handles[result.h].sends[k - 1]
                 IN /\ slot # 0
                    /\ effects[slot].type = result.cfgs[k].type
                    /\ slot \in Range(handles[result.h].applied_effects)

\* A looping play whose first entry failed and whose second entry is on
\* send 1.
C24_Witness ==
    /\ result.op \in PlayOps
    /\ result.ret = "handle"
    /\ handles[result.h].looping
    /\ Len(result.cfgs) = 2
    /\ ~ValidConfig(result.cfgs[1])
    /\ ValidConfig(result.cfgs[2])
    /\ handles[result.h].sends[0] = 0
    /\ handles[result.h].sends[1] # 0

\* C25: a play or play_p without a filter list, made while global filters
\* are registered, leaves the new handle's source with the first registered
\* filter as its one direct filter; with none registered the source has no
\* direct filter.
C25_FirstGlobalFilterOnly ==
    (/\ result.op \in PlayOps
     /\ result.ret = "handle") =>
        handles[result.h].src_filter =
            IF global_filters = <<>> THEN 0 ELSE global_filters[1].obj

\* A play made with two filters registered, whose handle has the first.
C25_Witness ==
    /\ result.op \in PlayOps
    /\ result.ret = "handle"
    /\ Len(global_filters) = 2
    /\ global_filters[1].obj # global_filters[2].obj
    /\ handles[result.h].src_filter = global_filters[1].obj

\* C26: create_global_effect keeps one entry per name; called with a
\* registered name it puts the new instance in that name's entry and leaves
\* the other entries alone, and no handle changes: a send that carried the old
\* instance still carries it.
C26_ReplaceKeepsOldOnHandles ==
    [][(result'.op = "create_global_effect" /\ result'.ret = "ok") =>
          /\ handles' = handles
          /\ \A i, j \in DOMAIN global_effect_slots' :
                i # j => global_effect_slots'[i].name # global_effect_slots'[j].name
          /\ \E i \in DOMAIN global_effect_slots' :
                /\ global_effect_slots'[i].obj = result'.h
                /\ result'.h \notin {global_effect_slots[k].obj :
                                        k \in DOMAIN global_effect_slots}
                /\ \A k \in DOMAIN global_effect_slots :
                      /\ global_effect_slots'[k].name = global_effect_slots[k].name
                      /\ k # i => global_effect_slots'[k] = global_effect_slots[k]]_vars

\* create_global_effect has replaced the instance of a registered name while
\* a live handle carries the old instance on a send.
C26_Witness ==
    /\ result.op = "create_global_effect"
    /\ result.ret = "ok"
    /\ Len(result.before) = Len(global_effect_slots)
    /\ \E i \in DOMAIN global_effect_slots, h \in Ids, send \in Sends :
          /\ global_effect_slots[i].obj = result.h
          /\ result.before[i].obj # result.h
          /\ Live(handles[h])
          /\ handles[h].sends[send] = result.before[i].obj

\* C27: set_max_oneshots(n) sets max_oneshots to max(10, n); a pool that
\* holds more handles than the new limit loses its oldest fifth at once,
\* stopped and destroyed, and any other pool and every handle is left as it was.
C27_SetMaxEvictsAtOnce ==
    [][result'.op = "set_max_oneshots" =>
          /\ max_oneshots' = Max(MinMaxOneshots, result'.arg)
          /\ IF Len(active_oneshots) > max_oneshots'
             THEN LET k == Max(1, Len(active_oneshots) \div EvictionDivisor)
                  IN /\ result'.evicted = SubSeq(active_oneshots, 1, k)
                     /\ active_oneshots' =
                            SubSeq(active_oneshots, k + 1, Len(active_oneshots))
                     /\ \A h \in Ids :
                           IF h \in Range(result'.evicted)
                           THEN Destroyed(handles'[h])
                           ELSE handles'[h] = handles[h]
             ELSE /\ active_oneshots' = active_oneshots
                  /\ handles' = handles
                  /\ result'.evicted = <<>>]_vars

\* set_max_oneshots(5) has set the limit to 10 and evicted from a pool that
\* held more.
C27_Witness ==
    /\ result.op = "set_max_oneshots"
    /\ result.arg = 5
    /\ max_oneshots = MinMaxOneshots
    /\ Len(result.before) > MinMaxOneshots
    /\ result.evicted # <<>>
    /\ \A h \in Range(result.evicted) : Destroyed(handles[h])

\* The tracked oneshots that are playing or paused
PoolKept ==
    {h \in Range(active_oneshots) :
        Live(handles[h]) /\ handles[h].state \in {"playing", "paused"}}

\* C28: cleanup_finished_sounds, called on its own or at the start of
\* play_oneshot, leaves in the pool exactly the tracked handles that are
\* playing or paused, in their insertion order and unchanged, and destroys
\* every handle it drops.
C28_PoolSweepKeepsActive ==
    [][/\ result'.op = "cleanup_finished_sounds" =>
            /\ active_oneshots' = SelectSeq(active_oneshots, LAMBDA h : h \in PoolKept)
            /\ \A h \in PoolKept : handles'[h] = handles[h]
            /\ \A h \in Range(active_oneshots) \ PoolKept : Destroyed(handles'[h])
            /\ \A h \in Ids \ Range(active_oneshots) : handles'[h] = handles[h]
       /\ result'.op = "play_oneshot" =>
            /\ result'.before = SelectSeq(active_oneshots, LAMBDA h : h \in PoolKept)
            /\ \A h \in Range(active_oneshots) \ PoolKept : Destroyed(handles'[h])
      ]_vars

\* The sweep has dropped a finished oneshot from between a paused and a
\* playing one.
C28_Witness ==
    /\ result.op = "cleanup_finished_sounds"
    /\ Len(result.before) >= 3
    /\ active_oneshots =
          <<result.before[1]>> \o SubSeq(result.before, 3, Len(result.before))
    /\ Destroyed(handles[result.before[2]])
    /\ handles[result.before[1]].state = "paused"
    /\ handles[result.before[3]].state = "playing"

\* C29: a handle returned by play or play_p is tracked by the oneshot pool
\* only when looping is False and by the persistent collection only when it
\* is True; in every state no handle is in both lists and none is twice in
\* either.
C29_TrackedOnce ==
    /\ Range(items) \cap Range(active_oneshots) = {}
    /\ Cardinality(Range(items)) = Len(items)
    /\ Cardinality(Range(active_oneshots)) = Len(active_oneshots)
    /\ (result.op \in PlayOps /\ result.ret = "handle") =>
          IF handles[result.h].looping
          THEN result.h \in Range(items) /\ result.h \notin Range(active_oneshots)
          ELSE result.h \in Range(active_oneshots) /\ result.h \notin Range(items)

\* A looping play has returned while a oneshot is tracked by the pool and
\* another looping handle by the collection.
C29_Witness ==
    /\ result.op \in PlayOps
    /\ result.ret = "handle"
    /\ handles[result.h].looping
    /\ Len(items) = 2
    /\ items[2] = result.h
    /\ Len(active_oneshots) = 1

\* C30: in every state a live handle whose distance-muted flag is set has
\* the backend volume 0 (SpecAttribs).  Violated: update_attribs on a muted
\* handle writes the new volume to the backend source and leaves the flag set.
C30_MutedIsSilent ==
    \A h \in Ids :
        (Live(handles[h]) /\ handles[h].muted) => handles[h].gain = 0

\* C31: the persistent collection holds no destroyed handle, and after
\* Manager.destroy(item) has returned True the item is not in the collection
\* (SpecRegistry).  Violated: Manager.destroy destroys the item and leaves it
\* in the list.
C31_NoDestroyedInCollection ==
    /\ \A h \in Range(items) : ~Destroyed(handles[h])
    /\ (result.op = "destroy" /\ result.ret = "true") => result.h \notin Range(items)

\* The registry calls of C32 that the model has
RegistryCalls ==
    {"update", "update_position", "update_attribs", "pause_all", "resume_all",
     "clean", "destroy_all"}

\* C32: no registry call raises because of a handle that was destroyed
\* earlier: a call that raises was made on a handle that is not destroyed
\* (SpecRegistry).  Violated: update_attribs on an item that Manager.destroy
\* destroyed and left in the collection reads item.hd, which is None.
C32_NoRaiseAfterDestroy ==
    (result.op \in RegistryCalls /\ result.ret = "raise") =>
        ~Destroyed(handles[result.h])

\* C33: play_oneshot with a path that does not exist returns null and no
\* tracked handle that is playing or paused is stopped, destroyed or removed
\* by the call (SpecPool).  Violated: with the pool at capacity the eviction
\* runs before the test that the file exists.
C33_MissingFileKeepsPool ==
    [][(result'.op = "play_oneshot" /\ result'.ret = "none") =>
          \A h \in PoolKept :
              /\ h \in Range(active_oneshots')
              /\ handles'[h] = handles[h]]_vars

\* C34: remove_global_effect(name) changes only the sends routed to the
\* removed effect: a send occupied by another effect is occupied by the same
\* effect afterwards (SpecEffects).  Violated: the call clears all four sends
\* of every item of the persistent collection.
C34_RemoveTouchesOnlyItsSends ==
    [][(result'.op = "remove_global_effect" /\ result'.h # 0) =>
          \A h \in Ids, send \in Sends :
              handles[h].sends[send] \notin {0, result'.h}
                 => handles'[h].sends[send] = handles[h].sends[send]]_vars

\* C35: resume_all() called right after pause_all() gives every handle of
\* the persistent collection the playback state it had before pause_all:
\* playing handles play again and stopped handles are still stopped
\* (SpecRegistry).  Violated: resume_all calls play() on every item, which
\* starts a stopped one.
C35_ResumeRestores ==
    [][(result.op = "pause_all" /\ result'.op = "resume_all") =>
          \A i \in DOMAIN items :
              result.before[i] \in {"playing", "stopped"}
                 => handles'[items[i]].state = result.before[i]]_vars

\* C36: every routing of a source to an effect slot made by play, play_p
\* or play_oneshot uses a send index in 0..3 (SpecSends).  Violated: the
\* auto-apply loop passes the place of the effect in the registry, which is
\* 4 for the fifth global effect.
C36_SendIndexInRange ==
    result.sends \subseteq 0..(NumSends - 1)

\* C37: for every live handle get_effect_count() is the number of its
\* auxiliary sends that are occupied (SpecEffects).  Violated: a global effect
\* applied to the sound occupies a send and is not counted, and a second
\* add_effect on one send is counted twice.
C37_CountIsOccupiedSends ==
    \A h \in Ids :
        Live(handles[h]) =>
            GetEffectCount(handles[h])
                = Cardinality({send \in Sends : handles[h].sends[send] # 0})

\* C38: after update(x,y,z) every live positioned handle of the oneshot pool
\* is muted iff its distance to the new listener position is strictly
\* greater than its mute distance (SpecMute).  Violated: update notifies the
\* items of the persistent collection only.
C38_PoolMutedIffBeyond ==
    result.op = "update" =>
        \A h \in Range(active_oneshots) :
            (Live(handles[h]) /\ ~handles[h].direct) => MutedIffFar(h)

\* C39: once stop() has returned, and until the next call, the source of
\* the streaming sound is not playing (SpecStream).  Violated: the worker,
\* past its test of is_streaming, queues a buffer and restarts the source
\* after stop() has stopped it and unqueued its buffers.
C39_StoppedStaysStopped ==
    stream.last = "stop" => stream.src_state # "playing"

\* C40: while a stream played with loop=True is streaming, all its buffers
\* are in rotation: queued on the source or held by the worker for
\* refilling (SpecStream).  Violated: the buffer in hand when the worker
\* reaches the end of the data is not queued again.
C40_LoopKeepsBuffers ==
    (stream.is_streaming /\ stream.should_loop) =>
        stream.queued + stream.todo = StreamBufferCount

====
